---- MODULE Spec2Model ----
(***************************************************************************)
(* flux-bot: the command dispatch pipeline of FluxClient (lookup, argument *)
(* resolution, permission check, cooldown, plugin hooks, the pre-execution *)
(* middleware chain with the command body spliced in as its last element,  *)
(* the post-execution chain) and the plugin loader of PluginManager        *)
(* (dependency graph, topological sort, dependency filter, init).          *)
(*                                                                         *)
(* A dispatch is an async task: it is modelled as a stack of frames, one   *)
(* per pending async call, and advances one frame step at a time, so that  *)
(* other tasks interleave at the awaits.  Middleware, command bodies and   *)
(* plugin init functions are user code: their behaviour is drawn from      *)
(* small sets.                                                             *)
(***************************************************************************)
EXTENDS Integers, Sequences, FiniteSets, TLC

\* ---------------------------------------------------------------- bounds
MaxDispatch == 1
MaxPre == 2
MaxPost == 1
MaxTime == 7
MaxTimers == 2
MaxBatch == 3
MaxUses == 3

\* The longest post-execution list, the middleware of plugins included.
MaxPostAll == 2

\* The longest message, in tokens, besides the ban scenario's.
MaxTokens == 2

Dispatches == 1..MaxDispatch

\* The dispatch tasks there is room for: the specifications of a single
\* dispatch use the first MaxDispatch of them.
MaxTasks == 2

Tasks == 1..MaxTasks

\* ------------------------------------------------------------ environment
\* The guild member cache read by Interop: u1 is a member holding
\* BanMembers, u2 a member without permissions, u3 has no cached member
\* (direct message or uncached).
Users == {"u1", "u2", "u3"}

HasMember(u) == u # "u3"

MemberPermissions(u) == IF u = "u1" THEN {"BanMembers"} ELSE {}

\* Command objects handed to loadCommands.  hasPermissions and hasCooldown
\* tell whether the permissions and cooldown properties are present;
\* cooldown is in seconds (whatever number the constructor was given: it
\* checks none); inDM is props.inDM ?? false; aliases is the aliases array.
Command(name, hasPerm, perms, hasCooldown, cooldown, inDM, aliases) ==
    [name |-> name, hasPermissions |-> hasPerm, permissions |-> perms,
     hasCooldown |-> hasCooldown, cooldown |-> cooldown, inDM |-> inDM,
     aliases |-> aliases]

PingCommand == Command("ping", FALSE, {}, FALSE, 0, TRUE, {})

BanCommand == Command("ban", TRUE, {"BanMembers"}, TRUE, 2, FALSE, {"b"})

\* Commands of the cooldown scenarios: a cooldown of five seconds, of zero,
\* and a negative one.
SlowCommand == Command("slow", FALSE, {}, TRUE, 5, FALSE, {})

ZeroCommand == Command("zero", FALSE, {}, TRUE, 0, FALSE, {})

NegCommand == Command("neg", FALSE, {}, TRUE, -1, FALSE, {})

CommandLists == {<<PingCommand, BanCommand>>}

CommandNames == {"ping", "ban", "nope"}

\* A middleware is a script of the operations it performs in order:
\* "next" is `await next()`, "throw" is `throw err`; it returns at the end
\* of its script.
Script(mw) ==
    CASE mw = "pass" -> <<"next">>
      [] mw = "halt" -> <<>>
      [] mw = "throwBefore" -> <<"throw">>
      [] mw = "throwAfter" -> <<"next", "throw">>
      [] mw = "twice" -> <<"next", "next">>
      [] mw = "log" -> <<"next">>

PreMiddleware == {"pass", "halt", "throwBefore", "throwAfter", "twice"}

PostMiddleware == {"pass", "throwBefore"}

\* Plugins registered through registerPlugin; each has both command hooks.
HookPlugins == {"hooks"}

HasHooks(name) == name \in HookPlugins

\* Whether the plugin of that name has a destroy method.
HasDestroy(name) == name # "B"

\* Plugin objects handed to loadPlugins.  A version is a major version; a
\* dependency's range is the set of versions it admits; hasDependencies
\* tells whether the dependencies property is present.
Dep(name, range) == [name |-> name, version |-> range]

Plugin(name, version, hasDeps, deps, cmds, pre) ==
    [name |-> name, version |-> version, hasDependencies |-> hasDeps,
     dependencies |-> deps, commands |-> cmds, preExecutionMiddleware |-> pre,
     postExecutionMiddleware |-> <<>>]

PluginA == Plugin("A", 1, FALSE, <<>>, <<PingCommand>>, <<"pass">>)

\* A plugin that declares a pre- and a post-execution middleware, both of
\* which pass control on.
PluginP ==
    [Plugin("P", 1, FALSE, <<>>, <<PingCommand>>, <<"log">>) EXCEPT
        !.postExecutionMiddleware = <<"log">>]

PluginQ == Plugin("Q", 1, FALSE, <<>>, <<>>, <<"pass">>)

\* A plugin that contributes the command with a cooldown and one
\* pre-execution middleware.
PluginS == Plugin("S", 1, FALSE, <<>>, <<SlowCommand>>, <<"pass">>)

PluginA2 == Plugin("A", 2, TRUE, <<>>, <<>>, <<>>)

PluginB == Plugin("B", 1, TRUE, <<Dep("A", {1})>>, <<>>, <<>>)

PluginC == Plugin("C", 1, TRUE, <<Dep("B", {1, 2})>>, <<>>, <<>>)

PluginX == Plugin("X", 1, TRUE, <<Dep("Y", {1})>>, <<>>, <<>>)

PluginY == Plugin("Y", 1, TRUE, <<Dep("X", {1})>>, <<>>, <<>>)

PluginD == Plugin("D", 1, TRUE, <<Dep("A", {2}), Dep("X", {1})>>, <<>>, <<>>)

\* A plugin that lists itself as a dependency.
PluginE == Plugin("E", 1, TRUE, <<Dep("E", {1})>>, <<>>, <<>>)

\* Two plugins that with B share the dependency A: F depends on B and G,
\* and G, like B, on A.
PluginG == Plugin("G", 1, TRUE, <<Dep("A", {1})>>, <<>>, <<>>)

PluginF == Plugin("F", 1, TRUE, <<Dep("B", {1}), Dep("G", {1})>>, <<>>, <<>>)

PluginObjects == {PluginA, PluginA2, PluginB, PluginC, PluginD, PluginX, PluginY}

\* semver.satisfies(version, range)
satisfies(version, range) == version \in range

VARIABLES
    commands,                \* FluxClient.commands: name -> Command
    commandOrder,            \* the keys of FluxClient.commands in Map order
    registered,              \* history: names by their latest registration
    plugins,                 \* FluxClient.plugins: live registry, name -> version
    preExecutionMiddleware,  \* FluxClient.preExecutionMiddleware
    postExecutionMiddleware, \* FluxClient.postExecutionMiddleware
    cooldowns,               \* FluxClient.cooldowns: name -> (user -> ms)
    timers,                  \* pending setTimeout callbacks of the cooldown
    now,                     \* wall clock, seconds
    uses,                    \* history: the cooldown checks made, in order
    parse,                   \* the OptionParser call being evaluated
    disp,                    \* the dispatch tasks
    loadedPlugins,           \* PluginManager.loadedPlugins: name -> version
    load,                    \* the loadPlugins call in progress
    initialized,             \* history: the (name, version) whose init succeeded
    unload                   \* the unloadPlugins call in progress

vars == <<commands, commandOrder, registered, plugins, preExecutionMiddleware,
          postExecutionMiddleware, cooldowns, timers, now, parse, uses, disp,
          loadedPlugins, load, initialized, unload>>

\* The state of the plugin manager, left alone by the dispatch pipeline.
pmVars == <<loadedPlugins, load, initialized, unload>>

\* ----------------------------------------------------------- option values
\* The values the option parser handles: JavaScript undefined, numbers,
\* strings, booleans, guild members and channels.
Undefined == [kind |-> "undefined", num |-> 0, str |-> ""]

Num(n) == [kind |-> "number", num |-> n, str |-> ""]

NaN == [kind |-> "number", num |-> 0, str |-> "NaN"]

Str(s) == [kind |-> "string", num |-> 0, str |-> s]

Bool(b) == [kind |-> "boolean", num |-> IF b THEN 1 ELSE 0, str |-> ""]

Member(id) == [kind |-> "member", num |-> 0, str |-> id]

Channel(id) == [kind |-> "channel", num |-> 0, str |-> id]

\* An option schema of a command.  hasChoices tells whether the option
\* declares choices; defaultValue is Undefined when the option declares
\* none.  Default values are static.
Option(name, type, required, collect, defaultValue, hasChoices, choices) ==
    [name |-> name, type |-> type, required |-> required, collect |-> collect,
     defaultValue |-> defaultValue, hasChoices |-> hasChoices, choices |-> choices]

\* The state of one OptionParser.parseOptions call: the source it was given
\* ("interaction" or "message"), the schema, the tokens of the message and
\* the ones not shifted off yet, the values the interaction carries, the
\* loop index, the arguments resolved so far and the error thrown; rest is
\* history: the tokens that were left when each option was handled.
IdleParse ==
    [pc |-> "idle", source |-> "", options |-> <<>>, tokens |-> <<>>,
     args |-> <<>>, provided |-> <<>>, i |-> 1, parsedArgs |-> <<>>,
     error |-> "", rest |-> <<>>]

\* ------------------------------------------------------------------ logs
\* Every dispatch keeps the ordered record of what it did: the steps it
\* began ("step"), the user code it invoked ("call"), what that code did
\* ("ret"), and the events it emitted on the client ("emit").
Entry(k, n, i, err) == [k |-> k, n |-> n, i |-> i, err |-> err]

Step(n) == Entry("step", n, 0, "")

Call(n, i) == Entry("call", n, i, "")

Ret(n, i, err) == Entry("ret", n, i, err)

Emit(n, err) == Entry("emit", n, 0, err)

NoCommand == Command("", FALSE, {}, FALSE, 0, FALSE, {})

\* via is the channel of the event ("interaction" or "message"); guild tells
\* whether a text message came from a guild.
IdleDispatch ==
    [pc |-> "idle", via |-> "", guild |-> TRUE, name |-> "", user |-> "",
     command |-> NoCommand,
     chain |-> <<>>, index |-> -1, pindex |-> -1, stack |-> <<>>, exc |-> "",
     log |-> <<>>]

\* The log of a loadPlugins call: init invocations and emitted events, with
\* the plugin they are about and the names the event carries (the cycle
\* path, the unmet dependencies).
PEntry(k, name, version, names) ==
    [k |-> k, name |-> name, version |-> version, names |-> names]

IdleLoad ==
    [pc |-> "idle", batch |-> <<>>, sorted |-> <<>>, valid |-> <<>>, pos |-> 0,
     current |-> 0, before |-> <<>>, live |-> <<>>, log |-> <<>>]

\* The unloadPlugins call: the registry it started from, the plugins its
\* loop has visited, the one whose destroy it awaits, and its log.
IdleUnload ==
    [pc |-> "idle", registry |-> <<>>, visited |-> {}, current |-> "",
     log |-> <<>>]

\* An empty Collection.
EmptyMap == [x \in {} |-> 0]

Frame(f, i, ph) == [f |-> f, i |-> i, ip |-> 1, ph |-> ph]

Top(r) == r.stack[Len(r.stack)]

Pop(r) == [r EXCEPT !.stack = SubSeq(r.stack, 1, Len(r.stack) - 1)]

Push(r, fr) == [r EXCEPT !.stack = Append(r.stack, fr)]

Logged(r, e) == [r EXCEPT !.log = Append(r.log, e)]

SetTop(r, fr) == [r EXCEPT !.stack[Len(r.stack)] = fr]

\* ------------------------------------------------------------------ Init
Init ==
    /\ commands = EmptyMap
    /\ commandOrder = <<>>
    /\ registered = <<>>
    /\ plugins = EmptyMap
    /\ preExecutionMiddleware = <<>>
    /\ postExecutionMiddleware = <<>>
    /\ cooldowns = EmptyMap
    /\ timers = {}
    /\ now = 1
    /\ uses = <<>>
    /\ parse = IdleParse
    /\ disp = [d \in Tasks |-> IdleDispatch]
    /\ loadedPlugins = EmptyMap
    /\ load = IdleLoad
    /\ initialized = {}
    /\ unload = IdleUnload

\* Collection.delete(key)
Delete(collection, key) == [x \in DOMAIN collection \ {key} |-> collection[x]]

\* ------------------------------------------------- registration surface
RECURSIVE SetAll(_, _)
\* commands.forEach(command => this.commands.set(command.name, command))
SetAll(registry, list) ==
    IF list = <<>> THEN registry
    ELSE SetAll((Head(list).name :> Head(list)) @@ registry, Tail(list))

RECURSIVE KeysAfter(_, _)
\* The keys of the Map after set(command.name, ...) for every command of the
\* list: a new key goes to the end, a key already there keeps its place.
KeysAfter(order, list) ==
    IF list = <<>> THEN order
    ELSE KeysAfter(IF \E k \in 1..Len(order) : order[k] = Head(list).name
                   THEN order
                   ELSE Append(order, Head(list).name),
                   Tail(list))

RECURSIVE RegisteredAfter(_, _)
\* The names registered so far, the most recently registered last.
RegisteredAfter(names, list) ==
    IF list = <<>> THEN names
    ELSE RegisteredAfter(
             Append(SelectSeq(names, LAMBDA n : n # Head(list).name), Head(list).name),
             Tail(list))

loadCommands(list) ==
    /\ commands' = SetAll(commands, list)
    /\ commandOrder' = KeysAfter(commandOrder, list)
    /\ registered' = RegisteredAfter(registered, list)
    /\ UNCHANGED <<plugins, preExecutionMiddleware, postExecutionMiddleware,
                   cooldowns, timers, now, parse, uses, disp, pmVars>>

\* A registration that puts the middleware at the front of the list.
registerPreExecutionMiddlewareFirst(mw) ==
    /\ Len(preExecutionMiddleware) < MaxPre
    /\ preExecutionMiddleware' = <<mw>> \o preExecutionMiddleware
    /\ UNCHANGED <<commands, commandOrder, registered, plugins, postExecutionMiddleware, cooldowns,
                   timers, now, parse, uses, disp, pmVars>>

\* this.preExecutionMiddleware.push(middleware)
registerPreExecutionMiddleware(mw) ==
    /\ Len(preExecutionMiddleware) < MaxPre
    /\ preExecutionMiddleware' = Append(preExecutionMiddleware, mw)
    /\ UNCHANGED <<commands, commandOrder, registered, plugins, postExecutionMiddleware, cooldowns,
                   timers, now, parse, uses, disp, pmVars>>

registerPostExecutionMiddleware(mw) ==
    /\ Len(postExecutionMiddleware) < MaxPost
    /\ postExecutionMiddleware' = Append(postExecutionMiddleware, mw)
    /\ UNCHANGED <<commands, commandOrder, registered, plugins, preExecutionMiddleware, cooldowns,
                   timers, now, parse, uses, disp, pmVars>>

registerPlugin(p) ==
    /\ p \notin DOMAIN plugins
    /\ plugins' = (p :> 1) @@ plugins
    /\ UNCHANGED <<commands, commandOrder, registered, preExecutionMiddleware, postExecutionMiddleware,
                   cooldowns, timers, now, parse, uses, disp, pmVars>>

unregisterPlugin(p) ==
    /\ p \in DOMAIN plugins
    /\ plugins' = Delete(plugins, p)
    /\ UNCHANGED <<commands, commandOrder, registered, preExecutionMiddleware, postExecutionMiddleware,
                   cooldowns, timers, now, parse, uses, disp, pmVars>>

\* ------------------------------------------------------------------ time
\* Timers fire when due: the clock does not pass a pending timer.
Tick ==
    /\ now < MaxTime
    /\ \A t \in timers : t.due > now * 1000
    /\ now' = now + 1
    /\ UNCHANGED <<commands, commandOrder, registered, plugins, preExecutionMiddleware,
                   postExecutionMiddleware, cooldowns, timers, parse, uses, disp,
                   pmVars>>

\* A callback that deletes the entry only when the entry is as old as the
\* timer's delay: a timer set before the entry was stamped again leaves it.
TimerFireIfExpired(t) ==
    /\ t \in timers
    /\ t.due <= now * 1000
    /\ timers' = timers \ {t}
    /\ cooldowns' =
           IF \E t2 \in timers : t2.cmd = t.cmd /\ t2.user = t.user /\ t2.due > t.due
           THEN cooldowns
           ELSE [cooldowns EXCEPT ![t.cmd] = Delete(@, t.user)]
    /\ UNCHANGED <<commands, commandOrder, registered, plugins, preExecutionMiddleware,
                   postExecutionMiddleware, now, parse, uses, disp, pmVars>>

\* setTimeout(() => timeStamps.delete(interop.user.id), cooldownTime)
TimerFire(t) ==
    /\ t \in timers
    /\ t.due <= now * 1000
    /\ timers' = timers \ {t}
    /\ cooldowns' = [cooldowns EXCEPT ![t.cmd] = Delete(@, t.user)]
    /\ UNCHANGED <<commands, commandOrder, registered, plugins, preExecutionMiddleware,
                   postExecutionMiddleware, now, parse, uses, disp, pmVars>>

\* -------------------------------------------------------------- dispatch
\* The permission check without the optional chaining on interop.member: a
\* user without a guild member is let through.
PermissionDeniedMemberOnly(command, u) ==
    /\ command.hasPermissions
    /\ HasMember(u)
    /\ ~(command.permissions \subseteq MemberPermissions(u))

\* command.permissions && !interop.member?.permissions.has(command.permissions)
PermissionDenied(command, u) ==
    /\ command.hasPermissions
    /\ ~(HasMember(u) /\ command.permissions \subseteq MemberPermissions(u))

\* if (command.cooldown): the property is present and is not 0
HasCooldown(command) == command.hasCooldown /\ command.cooldown # 0

\* this.cooldowns.get(command.name) || this.cooldowns.set(...).get(...)
TimeStamps(command) ==
    IF command.name \in DOMAIN cooldowns THEN cooldowns[command.name] ELSE EmptyMap

\* lastuse && current < lastuse + cooldownTime
CooldownActive(command, u) ==
    /\ HasCooldown(command)
    /\ u \in DOMAIN TimeStamps(command)
    /\ TimeStamps(command)[u] # 0
    /\ now * 1000 < TimeStamps(command)[u] + command.cooldown * 1000

\* (lastuse + cooldownTime - current) / 1000, 0 when the user is not on
\* cooldown; the clock shows whole seconds, so the division is exact.
TimeLeft(command, u) ==
    IF CooldownActive(command, u)
    THEN (TimeStamps(command)[u] + command.cooldown * 1000 - now * 1000) \div 1000
    ELSE 0

\* A ledger written only when the user was not found on cooldown.
StampedUnlessActive(command, u) ==
    IF CooldownActive(command, u) THEN cooldowns
    ELSE (command.name :> ((u :> now * 1000) @@ TimeStamps(command))) @@ cooldowns

\* The ledger after timeStamps.set(interop.user.id, current)
Stamped(command, u) ==
    (command.name :> ((u :> now * 1000) @@ TimeStamps(command))) @@ cooldowns

\* setTimeout(callback, delay): a delay below 1 ms is a delay of 1 ms.
Delay(ms) == IF ms < 1 THEN 1 ELSE ms

\* A timer handle: timers set by different calls are different timers, also
\* when they delete the same entry at the same time.
NewTimer(cmd, u, due) ==
    LET same == {t \in timers : t.cmd = cmd /\ t.user = u /\ t.due = due}
    IN  [cmd |-> cmd, user |-> u, due |-> due,
         id |-> CHOOSE i \in 0..Cardinality(same) : \A t \in same : t.id # i]

\* One cooldown check, as the history keeps it.
Use(command, u) ==
    [cmd |-> command.name, user |-> u, at |-> now,
     active |-> CooldownActive(command, u), timeLeft |-> TimeLeft(command, u)]

\* A dispatch may start: its slot is free, the slots before it are taken,
\* and the timers and the history have room for one more cooldown check.
MayStart(d) ==
    /\ disp[d].pc = "idle"
    /\ Cardinality(timers) < MaxTimers
    /\ Len(uses) < MaxUses
    /\ \A e \in Tasks : e < d => disp[e].pc # "idle"

\* An unknown command whose dispatch goes on to argument resolution after
\* the event.
HandleInteractionNoReturn(d, name, u) ==
    /\ MayStart(d)
    /\ LET r0 == [disp[d] EXCEPT !.via = "interaction", !.name = name, !.user = u]
           r1 == Logged(r0, Step("lookup"))
           r2 == IF name \notin DOMAIN commands
                 THEN Logged(r1, Emit("commandNotFound", ""))
                 ELSE [r1 EXCEPT !.command = commands[name]]
       IN  disp' = [disp EXCEPT ![d] =
                       [Logged(r2, Step("resolve")) EXCEPT !.pc = "resolve"]]
    /\ UNCHANGED <<commands, commandOrder, registered, plugins, preExecutionMiddleware,
                   postExecutionMiddleware, cooldowns, timers, now, parse, uses, pmVars>>

\* handleInteraction, up to the first await
HandleInteraction(d, name, u) ==
    /\ MayStart(d)
    /\ LET r0 == [disp[d] EXCEPT !.via = "interaction", !.name = name, !.user = u]
           r1 == Logged(r0, Step("lookup"))
       IN  IF name \notin DOMAIN commands
           THEN disp' = [disp EXCEPT ![d] =
                    [Logged(r1, Emit("commandNotFound", "")) EXCEPT !.pc = "done"]]
           ELSE disp' = [disp EXCEPT ![d] =
                    [Logged(r1, Step("resolve")) EXCEPT
                        !.pc = "resolve", !.command = commands[name]]]
    /\ UNCHANGED <<commands, commandOrder, registered, plugins, preExecutionMiddleware,
                   postExecutionMiddleware, cooldowns, timers, now, parse, uses, pmVars>>

\* String.prototype.toLowerCase on the message words used here.
ToLowerCase(word) ==
    CASE word = "BAN" -> "ban"
      [] word = "Nope" -> "nope"
      [] word = "TRUE" -> "true"
      [] OTHER -> word

\* this.commands.get(commandName)
\*     || this.commands.find(cmd => cmd.aliases?.includes(commandName)),
\* NoCommand when both are undefined.  find returns the first command, in
\* the key order of the Map, that has the alias.
FindCommand(commandName) ==
    IF commandName \in DOMAIN commands THEN commands[commandName]
    ELSE LET byAlias == SelectSeq(commandOrder,
                                  LAMBDA n : commandName \in commands[n].aliases)
         IN  IF byAlias = <<>> THEN NoCommand
             ELSE commands[Head(byAlias)]

\* !message.guild && command.inDM
InvalidContext(command, guild) == ~guild /\ command.inDM

\* handleMessageInteraction for a message of a user (not a bot) that starts
\* with the prefix and whose first word is `word`, up to the first await.
\* A message outside a guild has no guild member.
HandleMessageInteraction(d, word, u, guild) ==
    /\ MayStart(d)
    /\ guild \/ ~HasMember(u)
    /\ LET commandName == ToLowerCase(word)
           command == FindCommand(commandName)
           r0 == [disp[d] EXCEPT !.via = "message", !.guild = guild,
                                 !.name = commandName, !.user = u]
           r1 == Logged(r0, Step("lookup"))
       IN  IF command = NoCommand
           THEN disp' = [disp EXCEPT ![d] = [r1 EXCEPT !.pc = "done"]]
           ELSE IF InvalidContext(command, guild)
           THEN disp' = [disp EXCEPT ![d] =
                    [Logged(r1, Emit("invalidContext", "")) EXCEPT
                        !.pc = "done", !.command = command]]
           ELSE disp' = [disp EXCEPT ![d] =
                    [Logged(r1, Step("resolve")) EXCEPT
                        !.pc = "resolve", !.command = command]]
    /\ UNCHANGED <<commands, commandOrder, registered, plugins, preExecutionMiddleware,
                   postExecutionMiddleware, cooldowns, timers, now, parse, uses, pmVars>>

\* ResolveSettle continuing with commandHandler after the event of a failed
\* resolution.
ResolveSettleContinues(d, ok) ==
    /\ disp[d].pc = "resolve"
    /\ LET r1 == Logged(disp[d], Ret("resolve", 0, IF ok THEN "" ELSE "argumentError"))
       IN  IF ok
           THEN disp' = [disp EXCEPT ![d] = [r1 EXCEPT !.pc = "handler"]]
           ELSE disp' = [disp EXCEPT ![d] =
                    [Logged(r1, Emit("invalidArgumentsGiven", "argumentError"))
                        EXCEPT !.pc = "handler"]]
    /\ UNCHANGED <<commands, commandOrder, registered, plugins, preExecutionMiddleware,
                   postExecutionMiddleware, cooldowns, timers, now, parse, uses, pmVars>>

\* deferReply and OptionParser.parseOptions have settled
ResolveSettle(d, ok) ==
    /\ disp[d].pc = "resolve"
    /\ LET r1 == Logged(disp[d], Ret("resolve", 0, IF ok THEN "" ELSE "argumentError"))
       IN  IF ok
           THEN disp' = [disp EXCEPT ![d] = [r1 EXCEPT !.pc = "handler"]]
           ELSE disp' = [disp EXCEPT ![d] =
                    [Logged(r1, Emit("invalidArgumentsGiven", "argumentError"))
                        EXCEPT !.pc = "done"]]
    /\ UNCHANGED <<commands, commandOrder, registered, plugins, preExecutionMiddleware,
                   postExecutionMiddleware, cooldowns, timers, now, parse, uses, pmVars>>

\* A cooldown block that runs before the permission check: the stamp is
\* written and the timer set also for a dispatch that is then denied.
CommandHandlerStampsFirst(d) ==
    /\ disp[d].pc = "handler"
    /\ HasCooldown(disp[d].command) =>
           Cardinality(timers) < MaxTimers /\ Len(uses) < MaxUses
    /\ LET r == disp[d]
           c == r.command
           r1 == Logged(r, Step("permission"))
           r2 == Logged(r1, Step("cooldown"))
           r3 == IF CooldownActive(c, r.user)
                 THEN Logged(r2, Emit("cooldownActive", ""))
                 ELSE r2
       IN  /\ disp' = [disp EXCEPT ![d] =
                   IF PermissionDenied(c, r.user)
                   THEN [Logged(r1, Emit("permissionDenied", "")) EXCEPT !.pc = "done"]
                   ELSE [r3 EXCEPT !.pc = "pluginArgs"]]
           /\ IF HasCooldown(c)
              THEN /\ cooldowns' = Stamped(c, r.user)
                   /\ timers' = timers \cup
                       {NewTimer(c.name, r.user,
                                 now * 1000 + Delay(c.cooldown * 1000))}
                   /\ uses' = Append(uses, Use(c, r.user))
              ELSE UNCHANGED <<cooldowns, timers, uses>>
    /\ UNCHANGED <<commands, commandOrder, registered, plugins, preExecutionMiddleware,
                   postExecutionMiddleware, now, parse, pmVars>>

\* A cooldown block with a suspension point between the read of the stamp
\* and the write: the stamp of another dispatch of the same command and
\* user that is still in flight past its own cooldown block is not seen.
CommandHandlerSuspends(d) ==
    /\ disp[d].pc = "handler"
    /\ HasCooldown(disp[d].command) =>
           Cardinality(timers) < MaxTimers /\ Len(uses) < MaxUses
    /\ LET r == disp[d]
           c == r.command
           r1 == Logged(r, Step("permission"))
           r2 == Logged(r1, Step("cooldown"))
           unseen == \E e \in Tasks \ {d} :
                         /\ disp[e].pc \in {"pluginArgs", "chain"}
                         /\ disp[e].command.name = c.name
                         /\ disp[e].user = r.user
           r3 == IF CooldownActive(c, r.user) /\ ~unseen
                 THEN Logged(r2, Emit("cooldownActive", ""))
                 ELSE r2
       IN  IF PermissionDenied(c, r.user)
           THEN /\ disp' = [disp EXCEPT ![d] =
                        [Logged(r1, Emit("permissionDenied", "")) EXCEPT !.pc = "done"]]
                /\ UNCHANGED <<cooldowns, timers, uses>>
           ELSE /\ disp' = [disp EXCEPT ![d] =
                        [r3 EXCEPT !.pc = "pluginArgs"]]
                /\ IF HasCooldown(c)
                   THEN /\ cooldowns' = Stamped(c, r.user)
                        /\ timers' = timers \cup
                            {NewTimer(c.name, r.user,
                                      now * 1000 + Delay(c.cooldown * 1000))}
                        /\ uses' = Append(uses, Use(c, r.user))
                   ELSE UNCHANGED <<cooldowns, timers, uses>>
    /\ UNCHANGED <<commands, commandOrder, registered, plugins, preExecutionMiddleware,
                   postExecutionMiddleware, now, parse, pmVars>>

\* commandHandler: the permission check and the cooldown block
CommandHandler(d) ==
    /\ disp[d].pc = "handler"
    /\ HasCooldown(disp[d].command) =>
           Cardinality(timers) < MaxTimers /\ Len(uses) < MaxUses
    /\ LET r == disp[d]
           c == r.command
           r1 == Logged(r, Step("permission"))
           r2 == Logged(r1, Step("cooldown"))
           r3 == IF CooldownActive(c, r.user)
                 THEN Logged(r2, Emit("cooldownActive", ""))
                 ELSE r2
       IN  IF PermissionDenied(c, r.user)
           THEN /\ disp' = [disp EXCEPT ![d] =
                        [Logged(r1, Emit("permissionDenied", "")) EXCEPT !.pc = "done"]]
                /\ UNCHANGED <<cooldowns, timers, uses>>
           ELSE /\ disp' = [disp EXCEPT ![d] =
                        [r3 EXCEPT !.pc = "pluginArgs"]]
                /\ IF HasCooldown(c)
                   THEN /\ cooldowns' = Stamped(c, r.user)
                        /\ timers' = timers \cup
                            {NewTimer(c.name, r.user,
                                      now * 1000 + Delay(c.cooldown * 1000))}
                        /\ uses' = Append(uses, Use(c, r.user))
                   ELSE UNCHANGED <<cooldowns, timers, uses>>
    /\ UNCHANGED <<commands, commandOrder, registered, plugins, preExecutionMiddleware,
                   postExecutionMiddleware, now, parse, pmVars>>

RECURSIVE SeqOf(_)
\* The values of a Collection, in iteration order.
SeqOf(S) ==
    IF S = {} THEN <<>>
    ELSE LET x == CHOOSE y \in S : TRUE IN <<x>> \o SeqOf(S \ {x})

RECURSIVE LoggedAll(_, _)
LoggedAll(r, es) ==
    IF es = <<>> THEN r ELSE LoggedAll(Logged(r, Head(es)), Tail(es))

\* One log entry per live plugin: the hook `hook` is invoked on each.
HookCalls(hook) ==
    LET ps == SeqOf({p \in DOMAIN plugins : HasHooks(p)})
    IN  [k \in 1..Len(ps) |-> Entry("call", hook, 0, ps[k])]

\* The closure `next` over the registered pre-execution middleware alone,
\* without postPreExecution at the end of the chain.
NextPreNoTerminal(r) ==
    LET i == r.index + 1
        r1 == [r EXCEPT !.index = i]
    IN  IF i < Len(r.chain)
        THEN Push(Logged(r1, Call("pre", i)), Frame("pre", i, ""))
        ELSE r1

\* A `next` that invokes the middleware after the one that called it, with
\* no cursor shared by the calls.
NextPreFromCaller(r) ==
    LET i == IF Top(r).f = "pre" THEN Top(r).i + 1 ELSE 0
        r1 == [r EXCEPT !.index = i]
    IN  IF i < Len(r.chain)
        THEN Push(Logged(r1, Call("pre", i)), Frame("pre", i, ""))
        ELSE Push(Logged(r1, Call("postPreExecution", i)), Frame("term", i, "hooks"))

\* The closure `next` of executeMiddleware over the pre-execution chain
\* [...preExecutionMiddleware, postPreExecution], copied when the chain
\* started: index++; if (index < middleware.length) invoke middleware[index].
NextPre(r) ==
    LET i == r.index + 1
        r1 == [r EXCEPT !.index = i]
    IN  IF i < Len(r.chain) + 1
        THEN IF i < Len(r.chain)
             THEN Push(Logged(r1, Call("pre", i)), Frame("pre", i, ""))
             ELSE Push(Logged(r1, Call("postPreExecution", i)), Frame("term", i, "hooks"))
        ELSE r1

\* The closure `next` of executeMiddleware over this.postExecutionMiddleware,
\* the live array.
NextPost(r) ==
    LET i == r.pindex + 1
        r1 == [r EXCEPT !.pindex = i]
    IN  IF i < Len(postExecutionMiddleware)
        THEN Push(Logged(r1, Call("post", i)), Frame("post", i, ""))
        ELSE r1

\* commandHandler after the cooldown block: provideCommandArguments of every
\* live plugin, then executeMiddleware over the pre-execution chain.
ProvideArguments(d) ==
    /\ disp[d].pc = "pluginArgs"
    /\ LET r1 == LoggedAll(disp[d], HookCalls("provideCommandArguments"))
           r2 == [Logged(r1, Step("preChain")) EXCEPT
                     !.pc = "chain", !.chain = preExecutionMiddleware,
                     !.index = -1, !.stack = <<Frame("handler", 0, "")>>]
       IN  disp' = [disp EXCEPT ![d] = NextPre(r2)]
    /\ UNCHANGED <<commands, commandOrder, registered, plugins, preExecutionMiddleware,
                   postExecutionMiddleware, cooldowns, timers, now, parse, uses, pmVars>>

\* The middleware a frame runs.
FrameMiddleware(r, fr) ==
    IF fr.f = "pre" THEN r.chain[fr.i + 1] ELSE postExecutionMiddleware[fr.i + 1]

\* A middleware does the next operation of its script, or returns.
MiddlewareStep(d) ==
    /\ disp[d].pc = "chain"
    /\ disp[d].exc = ""
    /\ Top(disp[d]).f \in {"pre", "post"}
    /\ LET r == disp[d]
           fr == Top(r)
           sc == Script(FrameMiddleware(r, fr))
           adv == SetTop(r, [fr EXCEPT !.ip = fr.ip + 1])
       IN  disp' = [disp EXCEPT ![d] =
               IF fr.ip > Len(sc)
               THEN Pop(Logged(r, Ret(fr.f, fr.i, "")))
               ELSE IF sc[fr.ip] = "next"
               THEN IF fr.f = "pre"
                    THEN NextPre(Logged(adv, Entry("next", fr.f, fr.i, "")))
                    ELSE NextPost(Logged(adv, Entry("next", fr.f, fr.i, "")))
               ELSE [Pop(Logged(r, Ret(fr.f, fr.i, fr.f \o "Error")))
                        EXCEPT !.exc = fr.f \o "Error"]]
    /\ UNCHANGED <<commands, commandOrder, registered, plugins, preExecutionMiddleware,
                   postExecutionMiddleware, cooldowns, timers, now, parse, uses, pmVars>>

\* await this.executeMiddleware(this.postExecutionMiddleware, context)
StartPostChain(r) ==
    NextPost([Logged(SetTop(r, [Top(r) EXCEPT !.ph = "post"]), Step("postChain"))
                 EXCEPT !.pindex = -1])

\* postPreExecution calling command.execute without awaiting it: the
\* post-execution chain is started at once.
InvokeBodyNoAwait(d) ==
    /\ disp[d].pc = "chain"
    /\ disp[d].exc = ""
    /\ Top(disp[d]).f = "term"
    /\ Top(disp[d]).ph = "hooks"
    /\ LET r2 == Logged(LoggedAll(disp[d], HookCalls("onCommandCall")), Step("body"))
       IN  disp' = [disp EXCEPT ![d] = StartPostChain(r2)]
    /\ UNCHANGED <<commands, commandOrder, registered, plugins, preExecutionMiddleware,
                   postExecutionMiddleware, cooldowns, timers, now, parse, uses, pmVars>>

\* A command body that is invoked only while no other dispatch is waiting
\* for its own command body: one body at a time.
InvokeBodySerial(d) ==
    /\ disp[d].pc = "chain"
    /\ disp[d].exc = ""
    /\ Top(disp[d]).f = "term"
    /\ Top(disp[d]).ph = "hooks"
    /\ \A e \in Tasks \ {d} :
           ~(/\ disp[e].pc = "chain"
             /\ Top(disp[e]).f = "term"
             /\ Top(disp[e]).ph = "body")
    /\ LET r == disp[d]
           r1 == LoggedAll(r, HookCalls("onCommandCall"))
           r2 == Logged(r1, Step("body"))
       IN  disp' = [disp EXCEPT ![d] = SetTop(r2, [Top(r) EXCEPT !.ph = "body"])]
    /\ UNCHANGED <<commands, commandOrder, registered, plugins, preExecutionMiddleware,
                   postExecutionMiddleware, cooldowns, timers, now, parse, uses, pmVars>>

\* postPreExecution: await this.handlePluginCommand(interop), then the call
\* of command.execute.
InvokeBody(d) ==
    /\ disp[d].pc = "chain"
    /\ disp[d].exc = ""
    /\ Top(disp[d]).f = "term"
    /\ Top(disp[d]).ph = "hooks"
    /\ LET r == disp[d]
           r1 == LoggedAll(r, HookCalls("onCommandCall"))
           r2 == Logged(r1, Step("body"))
       IN  disp' = [disp EXCEPT ![d] = SetTop(r2, [Top(r) EXCEPT !.ph = "body"])]
    /\ UNCHANGED <<commands, commandOrder, registered, plugins, preExecutionMiddleware,
                   postExecutionMiddleware, cooldowns, timers, now, parse, uses, pmVars>>

\* command.execute settles: it returns, or it throws.  A body that never
\* settles is a dispatch for which this step is never taken.
BodySettle(d, ok) ==
    /\ disp[d].pc = "chain"
    /\ disp[d].exc = ""
    /\ Top(disp[d]).f = "term"
    /\ Top(disp[d]).ph = "body"
    /\ LET r == disp[d]
       IN  disp' = [disp EXCEPT ![d] =
               IF ok
               THEN StartPostChain(Logged(r, Ret("body", 0, "")))
               ELSE [Logged(r, Ret("body", 0, "bodyError")) EXCEPT !.exc = "bodyError"]]
    /\ UNCHANGED <<commands, commandOrder, registered, plugins, preExecutionMiddleware,
                   postExecutionMiddleware, cooldowns, timers, now, parse, uses, pmVars>>

\* A catch block around command.execute that returns after the event.
BodyCatchReturns(r, err) ==
    Pop(Logged(r, Emit("commandExecutionError", err)))

\* The catch block around command.execute: the event is emitted and
\* postPreExecution goes on to the post-execution chain.
BodyCatch(r, err) ==
    StartPostChain(Logged(r, Emit("commandExecutionError", err)))

\* postPreExecution without the try/catch around command.execute.
CatchesNoBody(fr) ==
    \/ fr.f = "term" /\ fr.ph = "post"
    \/ fr.f = "handler"

\* commandHandler without the try/catch around the pre-execution chain.
CatchesNoHandler(fr) == fr.f = "term" /\ fr.ph \in {"body", "post"}

\* Which frames catch an exception that reaches them: the try/catch around
\* command.execute, the one around the post-execution chain, and the one in
\* commandHandler around the pre-execution chain.  The try/catch of the
\* closure `next` rethrows, so a middleware frame catches nothing.
Catches(fr) ==
    \/ fr.f = "term" /\ fr.ph \in {"body", "post"}
    \/ fr.f = "handler"

\* An exception in flight reaches the frame on top of the stack.
Unwind(d) ==
    /\ disp[d].pc = "chain"
    /\ disp[d].exc # ""
    /\ LET r == disp[d]
           err == r.exc
           clr == [r EXCEPT !.exc = ""]
       IN  disp' = [disp EXCEPT ![d] =
               IF r.stack = <<>>
               THEN [r EXCEPT !.pc = "unhandled"]
               ELSE IF ~Catches(Top(r))
               THEN Pop(r)
               ELSE IF Top(r).f = "handler"
               THEN [Pop(Logged(Logged(clr, Ret("preChain", 0, err)),
                                Emit("middlewareError", err)))
                        EXCEPT !.pc = "done"]
               ELSE IF Top(r).ph = "body"
               THEN BodyCatch(clr, err)
               ELSE Logged(Logged(clr, Ret("postChain", 0, err)),
                           Emit("middlewareError", err))]
    /\ UNCHANGED <<commands, commandOrder, registered, plugins, preExecutionMiddleware,
                   postExecutionMiddleware, cooldowns, timers, now, parse, uses, pmVars>>

\* A pending executeMiddleware call returns to its awaiter: the post chain
\* to postPreExecution, which then returns; the pre chain to commandHandler.
ChainReturn(d) ==
    /\ disp[d].pc = "chain"
    /\ disp[d].exc = ""
    /\ \/ Top(disp[d]).f = "term" /\ Top(disp[d]).ph = "post"
       \/ Top(disp[d]).f = "handler"
    /\ LET r == disp[d]
       IN  disp' = [disp EXCEPT ![d] =
               IF Top(r).f = "handler"
               THEN [Pop(Logged(r, Ret("preChain", 0, ""))) EXCEPT !.pc = "done"]
               ELSE Pop(Logged(Logged(r, Ret("postChain", 0, "")),
                               Ret("postPreExecution", Top(r).i, "")))]
    /\ UNCHANGED <<commands, commandOrder, registered, plugins, preExecutionMiddleware,
                   postExecutionMiddleware, cooldowns, timers, now, parse, uses, pmVars>>

\* The task of a finished dispatch ends; its slot serves the next event.
TaskEnd(d) ==
    /\ disp[d].pc = "done"
    /\ disp' = [disp EXCEPT ![d] = IdleDispatch]
    /\ UNCHANGED <<commands, commandOrder, registered, plugins, preExecutionMiddleware,
                   postExecutionMiddleware, cooldowns, timers, now, parse, uses, pmVars>>

\* ------------------------------------------------------------------ Spec
\* The steps of a dispatch after its event handler's first await.
DispatchSteps ==
    \/ \E d \in Dispatches, ok \in BOOLEAN : ResolveSettle(d, ok)
    \/ \E d \in Dispatches : CommandHandler(d)
    \/ \E d \in Dispatches : ProvideArguments(d)
    \/ \E d \in Dispatches : MiddlewareStep(d)
    \/ \E d \in Dispatches : InvokeBody(d)
    \/ \E d \in Dispatches, ok \in BOOLEAN : BodySettle(d, ok)
    \/ \E d \in Dispatches : Unwind(d)
    \/ \E d \in Dispatches : ChainReturn(d)
    \/ \E d \in Dispatches : TaskEnd(d)

\* The steps of the dispatch tasks of slash command interactions.
Dispatch ==
    \/ \E d \in Dispatches, n \in CommandNames, u \in Users : HandleInteraction(d, n, u)
    \/ DispatchSteps

\* The dispatch pipeline with every registration surface of the client.
\* All dispatches fall within one second of the clock: the only code that
\* reads the clock is the cooldown block, and what it reads decides nothing
\* but whether cooldownActive is emitted.
Next ==
    \/ \E l \in CommandLists : loadCommands(l)
    \/ \E mw \in PreMiddleware : registerPreExecutionMiddleware(mw)
    \/ \E mw \in PostMiddleware : registerPostExecutionMiddleware(mw)
    \/ \E p \in HookPlugins : registerPlugin(p)
    \/ \E p \in HookPlugins : unregisterPlugin(p)
    \/ Dispatch

Spec == Init /\ [][Next]_vars

\* The dispatch pipeline with the clock and the cooldown timers; the only
\* middleware registered are ones that pass control on.
NextCooldown ==
    \/ \E l \in CommandLists : loadCommands(l)
    \/ registerPreExecutionMiddleware("pass")
    \/ Tick
    \/ \E t \in timers : TimerFire(t)
    \/ Dispatch

SpecCooldown == Init /\ [][NextCooldown]_vars

\* The first words of the prefixed text messages: a name, an alias, a name
\* in upper case, and words that name no command.
MessageWords == {"ping", "ban", "b", "BAN", "nope", "Nope"}

\* Both channels: slash command interactions and prefixed text messages,
\* from guilds and from direct messages.
NextMessage ==
    \/ \E l \in CommandLists : loadCommands(l)
    \/ registerPreExecutionMiddleware("pass")
    \/ \E d \in Dispatches, w \in MessageWords, u \in Users, g \in BOOLEAN :
           HandleMessageInteraction(d, w, u, g)
    \/ Dispatch

SpecMessage == Init /\ [][NextMessage]_vars

\* Commands that collide: kick has the alias b that ban has too and an alias
\* that is the name of ping; open declares an empty permission list.
OpenCommand == Command("open", TRUE, {}, FALSE, 0, FALSE, {"o"})

KickCommand == Command("kick", FALSE, {}, FALSE, 0, FALSE, {"b", "ping"})

AliasLists == {<<PingCommand, BanCommand, OpenCommand>>, <<KickCommand>>}

AliasNames == {"open", "kick"}

AliasWords == {"b", "ping", "kick", "o"}

\* The registry loaded in either order, a middleware that passes control
\* on, and dispatches of both channels.
NextAlias ==
    \/ \E l \in AliasLists : loadCommands(l)
    \/ registerPreExecutionMiddleware("pass")
    \/ \E d \in Dispatches, w \in AliasWords, u \in Users, g \in BOOLEAN :
           HandleMessageInteraction(d, w, u, g)
    \/ \E d \in Dispatches, n \in AliasNames, u \in Users : HandleInteraction(d, n, u)
    \/ DispatchSteps

SpecAlias == Init /\ [][NextAlias]_vars

\* The steps of one dispatch task after its event handler's first await.
StepsOf(d) ==
    \/ \E ok \in BOOLEAN : ResolveSettle(d, ok)
    \/ CommandHandler(d)
    \/ ProvideArguments(d)
    \/ MiddlewareStep(d)
    \/ InvokeBody(d)
    \/ \E ok \in BOOLEAN : BodySettle(d, ok)
    \/ Unwind(d)
    \/ ChainReturn(d)
    \/ TaskEnd(d)

StallUsers == {"u1", "u2"}

\* Two dispatch tasks in flight.  Every call the last task awaits settles
\* and the task takes its next step; nothing is assumed of the other task,
\* whose command body or middleware may never resolve.
NextStall ==
    \/ loadCommands(<<PingCommand>>)
    \/ registerPreExecutionMiddleware("pass")
    \/ registerPostExecutionMiddleware("pass")
    \/ \E d \in Tasks, u \in StallUsers : HandleInteraction(d, "ping", u)
    \/ \E d \in Tasks : StepsOf(d)

SpecStall == Init /\ [][NextStall]_vars /\ WF_vars(StepsOf(MaxTasks))

\* Two dispatch tasks of the command with a cooldown of five seconds, by one
\* user, interleaved with each other, with the clock and with the removal
\* timers.
NextRace ==
    \/ loadCommands(<<SlowCommand>>)
    \/ registerPreExecutionMiddleware("pass")
    \/ Tick
    \/ \E t \in timers : TimerFire(t)
    \/ \E d \in Tasks : HandleInteraction(d, "slow", "u1")
    \/ \E d \in Tasks : StepsOf(d)

SpecRace == Init /\ [][NextRace]_vars

\* The cooldown ledger over several seconds, for commands with a cooldown of
\* five seconds, of zero, a negative one and none.
LedgerLists == {<<SlowCommand, ZeroCommand, NegCommand, PingCommand>>}

LedgerNames == {"slow", "zero", "neg", "ping"}

LedgerUsers == {"u1"}

NextLedger ==
    \/ \E l \in LedgerLists : loadCommands(l)
    \/ registerPreExecutionMiddleware("pass")
    \/ Tick
    \/ \E t \in timers : TimerFire(t)
    \/ \E d \in Dispatches, n \in LedgerNames, u \in LedgerUsers :
           HandleInteraction(d, n, u)
    \/ DispatchSteps

SpecLedger == Init /\ [][NextLedger]_vars

\* --------------------------------------------------------- plugin manager
\* dependencyGraph of resolveDependenciesAndLoad: a Map, so keys keep the
\* position of their first insertion and the value of their last.
RECURSIVE GraphKeys(_)
GraphKeys(batch) ==
    IF batch = <<>> THEN <<>>
    ELSE LET init == GraphKeys(SubSeq(batch, 1, Len(batch) - 1))
             name == batch[Len(batch)].name
         IN  IF \E k \in 1..Len(init) : init[k] = name THEN init
             ELSE Append(init, name)

\* graph.get(plugin) || []
GraphGet(batch, name) ==
    LET ks == {k \in 1..Len(batch) : batch[k].name = name}
    IN  IF ks = {} THEN <<>>
        ELSE LET last == batch[CHOOSE k \in ks : \A j \in ks : j <= k]
             IN  [k \in 1..Len(last.dependencies) |-> last.dependencies[k].name]

\* if (stack.has(plugin)) throw new Error(`Circular dependency detected`)
OnStack(st, plugin) == \E k \in 1..Len(st.stack) : st.stack[k] = plugin

RECURSIVE visit(_, _, _), visitAll(_, _, _)
\* A depth-first visit that marks a plugin visited when it enters it and
\* has no stack check: a cycle goes unnoticed.
visitNoCycleCheck(batch, plugin, st) ==
    IF plugin \in st.visited THEN st
    ELSE LET st1 == [st EXCEPT !.visited = st.visited \cup {plugin}]
             st2 == visitAll(batch, GraphGet(batch, plugin), st1)
         IN  [st2 EXCEPT !.sorted = Append(st2.sorted, plugin)]

\* A visit that pushes the plugin before it visits its dependencies.
visitPreOrder(batch, plugin, st) ==
    IF st.err # <<>> THEN st
    ELSE IF OnStack(st, plugin)
    THEN [st EXCEPT !.err = Append(st.stack, plugin)]
    ELSE IF plugin \notin st.visited
    THEN LET st1 == [st EXCEPT !.stack = Append(st.stack, plugin),
                               !.sorted = Append(st.sorted, plugin)]
             st2 == visitAll(batch, GraphGet(batch, plugin), st1)
         IN  IF st2.err # <<>> THEN st2
             ELSE [st2 EXCEPT
                      !.stack = SelectSeq(st2.stack, LAMBDA x : x # plugin),
                      !.visited = st2.visited \cup {plugin}]
    ELSE st

\* The closure `visit` of topologicalSort.  st.err is the path of the
\* thrown error, <<>> while nothing was thrown.
visit(batch, plugin, st) ==
    IF st.err # <<>> THEN st
    ELSE IF OnStack(st, plugin)
    THEN [st EXCEPT !.err = Append(st.stack, plugin)]
    ELSE IF plugin \notin st.visited
    THEN LET st1 == [st EXCEPT !.stack = Append(st.stack, plugin)]
             st2 == visitAll(batch, GraphGet(batch, plugin), st1)
         IN  IF st2.err # <<>> THEN st2
             ELSE [st2 EXCEPT
                      !.stack = SelectSeq(st2.stack, LAMBDA x : x # plugin),
                      !.visited = st2.visited \cup {plugin},
                      !.sorted = Append(st2.sorted, plugin)]
    ELSE st

visitAll(batch, names, st) ==
    IF names = <<>> THEN st
    ELSE visitAll(batch, Tail(names), visit(batch, Head(names), st))

\* topologicalSort(graph): [sorted, err]
topologicalSort(batch) ==
    visitAll(batch, GraphKeys(batch),
             [sorted |-> <<>>, visited |-> {}, stack |-> <<>>, err |-> <<>>])

\* The filter without the version check: any loaded version will do.
MissingDepsAnyVersion(plugin) ==
    SelectSeq(plugin.dependencies,
              LAMBDA dep : dep.name \notin DOMAIN loadedPlugins)

\* The dependencies of a plugin that the filter of resolveDependenciesAndLoad
\* finds missing or incompatible.
MissingDeps(plugin) ==
    SelectSeq(plugin.dependencies,
              LAMBDA dep : \/ dep.name \notin DOMAIN loadedPlugins
                           \/ ~satisfies(loadedPlugins[dep.name], dep.version))

\* if (!plugin.dependencies) return true; ... return missingDeps.length == 0
IsValid(plugin) == ~plugin.hasDependencies \/ MissingDeps(plugin) = <<>>

DepNames(deps) == [k \in 1..Len(deps) |-> deps[k].name]

RECURSIVE FilterLog(_)
\* The pluginInitError events the filter emits, in batch order.
FilterLog(batch) ==
    IF batch = <<>> THEN <<>>
    ELSE (IF IsValid(Head(batch)) THEN <<>>
          ELSE <<PEntry("missingDeps", Head(batch).name, Head(batch).version,
                        DepNames(MissingDeps(Head(batch))))>>)
         \o FilterLog(Tail(batch))

\* validPlugins.find(p => p.name === pluginName): its index, 0 if none.
Find(valid, name) ==
    LET ks == {k \in 1..Len(valid) : valid[k].name = name}
    IN  IF ks = {} THEN 0 ELSE CHOOSE k \in ks : \A j \in ks : k <= j

\* The loop of resolveDependenciesAndLoad from position pos of sortedPlugins:
\* the next position whose name is a valid plugin, 0 if the loop ends.
NextLoad(sorted, valid, pos) ==
    LET ks == {k \in pos..Len(sorted) : Find(valid, sorted[k]) # 0}
    IN  IF ks = {} THEN 0 ELSE CHOOSE k \in ks : \A j \in ks : k <= j

\* The loop goes on until it calls loadPlugin, which invokes plugin.init and
\* awaits it, or until it ends.
Continue(l, pos) ==
    LET k == NextLoad(l.sorted, l.valid, pos)
        p == l.valid[Find(l.valid, l.sorted[k])]
    IN  IF k = 0 THEN [l EXCEPT !.pc = "done"]
        ELSE [l EXCEPT !.pc = "init", !.pos = k,
                       !.current = Find(l.valid, l.sorted[k]),
                       !.log = Append(l.log, PEntry("init", p.name, p.version, <<>>))]

\* What a batch appends to the middleware list when all its plugins load.
RECURSIVE PreOf(_)
PreOf(batch) ==
    IF batch = <<>> THEN 0
    ELSE Len(Head(batch).preExecutionMiddleware) + PreOf(Tail(batch))

RECURSIVE PostOf(_)
PostOf(batch) ==
    IF batch = <<>> THEN 0
    ELSE Len(Head(batch).postExecutionMiddleware) + PostOf(Tail(batch))

\* loadPlugins(plugins) with an array: resolveDependenciesAndLoad up to its
\* first await.
LoadPlugins(batch) ==
    /\ load.pc = "idle"
    /\ unload.pc = "idle"
    /\ Len(preExecutionMiddleware) + PreOf(batch) <= MaxPre
    /\ Len(postExecutionMiddleware) + PostOf(batch) <= MaxPostAll
    /\ LET ts == topologicalSort(batch)
           l0 == [load EXCEPT !.batch = batch, !.before = loadedPlugins,
                               !.live = plugins]
       IN  IF ts.err # <<>>
           THEN load' = [l0 EXCEPT !.pc = "done",
                                   !.log = <<PEntry("cycle", "", 0, ts.err)>>]
           ELSE load' = Continue([l0 EXCEPT
                                     !.sorted = ts.sorted,
                                     !.valid = SelectSeq(batch, IsValid),
                                     !.log = FilterLog(batch)], 1)
    /\ UNCHANGED <<commands, commandOrder, registered, plugins, preExecutionMiddleware,
                   postExecutionMiddleware, cooldowns, timers, now, parse, uses, disp,
                   loadedPlugins, initialized, unload>>

\* A catch block that gives up the rest of the batch.
InitFailedAborts(l, p) ==
    [l EXCEPT !.pc = "done",
              !.log = Append(@, PEntry("initError", p.name, p.version, <<>>))]

\* The catch block of loadPlugin: pluginInitError is emitted, loadPlugin
\* returns and the loop of resolveDependenciesAndLoad goes on.
InitFailed(l, p) ==
    Continue([l EXCEPT !.log =
                 Append(@, PEntry("initError", p.name, p.version, <<>>))],
             l.pos + 1)

\* loadPlugin after `await plugin.init(this.client)`: init returned, or it
\* threw; then the loop of resolveDependenciesAndLoad goes on.
InitSettle(ok) ==
    /\ load.pc = "init"
    /\ LET p == load.valid[load.current]
       IN  IF ok
           THEN /\ plugins' = (p.name :> p.version) @@ plugins
                /\ commands' = SetAll(commands, p.commands)
                /\ commandOrder' = KeysAfter(commandOrder, p.commands)
                /\ registered' = RegisteredAfter(registered, p.commands)
                /\ preExecutionMiddleware' =
                       preExecutionMiddleware \o p.preExecutionMiddleware
                /\ postExecutionMiddleware' =
                       postExecutionMiddleware \o p.postExecutionMiddleware
                /\ loadedPlugins' = (p.name :> p.version) @@ loadedPlugins
                /\ initialized' = initialized \cup {<<p.name, p.version>>}
                /\ load' = Continue(
                       [load EXCEPT !.log =
                           Append(@, PEntry("loaded", p.name, p.version, <<>>))],
                       load.pos + 1)
           ELSE /\ load' = InitFailed(load, p)
                /\ UNCHANGED <<commands, commandOrder, registered, plugins, preExecutionMiddleware,
                               postExecutionMiddleware, loadedPlugins,
                               initialized>>
    /\ UNCHANGED <<cooldowns, timers, now, parse, uses, disp, unload>>

\* The loadPlugins call has returned.
LoadEnd ==
    /\ load.pc = "done"
    /\ load' = IdleLoad
    /\ UNCHANGED <<commands, commandOrder, registered, plugins, preExecutionMiddleware,
                   postExecutionMiddleware, cooldowns, timers, now, parse, uses, disp,
                   loadedPlugins, initialized, unload>>

\* unloadPlugins, up to its loop.
unloadPlugins ==
    /\ unload.pc = "idle"
    /\ unload' = [IdleUnload EXCEPT !.pc = "loop", !.registry = plugins]
    /\ UNCHANGED <<commands, commandOrder, registered, plugins, preExecutionMiddleware,
                   postExecutionMiddleware, cooldowns, timers, now, parse, uses, disp,
                   loadedPlugins, load, initialized>>

\* An unloadPlugins that also withdraws what the plugins contributed: with
\* the live registry it clears the command registry and the middleware lists.
UnloadNextRetracts ==
    /\ unload.pc = "loop"
    /\ LET rest == DOMAIN plugins \ unload.visited
           name == CHOOSE n \in rest : TRUE
           seen == [unload EXCEPT !.visited = @ \cup {name}]
       IN  IF rest = {}
           THEN /\ plugins' = EmptyMap
                /\ commands' = EmptyMap
                /\ commandOrder' = <<>>
                /\ preExecutionMiddleware' = <<>>
                /\ postExecutionMiddleware' = <<>>
                /\ unload' = [unload EXCEPT !.pc = "done"]
           ELSE /\ UNCHANGED <<plugins, commands, commandOrder,
                               preExecutionMiddleware, postExecutionMiddleware>>
                /\ unload' =
                       IF HasDestroy(name)
                       THEN [seen EXCEPT
                                !.pc = "destroy", !.current = name,
                                !.log = Append(@, PEntry("destroy", name, plugins[name], <<>>))]
                       ELSE [seen EXCEPT
                                !.log = Append(@, PEntry("unloaded", name, plugins[name], <<>>))]
    /\ UNCHANGED <<registered, cooldowns, timers, now, parse, uses, disp, loadedPlugins,
                   load, initialized>>

\* One turn of `for (const plugin of this.client.plugins.values())`: the
\* next live plugin is visited and its destroy, if it has one, is invoked
\* and awaited; after the last one, this.client.plugins.clear().
UnloadNext ==
    /\ unload.pc = "loop"
    /\ LET rest == DOMAIN plugins \ unload.visited
           name == CHOOSE n \in rest : TRUE
           seen == [unload EXCEPT !.visited = @ \cup {name}]
       IN  IF rest = {}
           THEN /\ plugins' = EmptyMap
                /\ unload' = [unload EXCEPT !.pc = "done"]
           ELSE /\ UNCHANGED plugins
                /\ unload' =
                       IF HasDestroy(name)
                       THEN [seen EXCEPT
                                !.pc = "destroy", !.current = name,
                                !.log = Append(@, PEntry("destroy", name, plugins[name], <<>>))]
                       ELSE [seen EXCEPT
                                !.log = Append(@, PEntry("unloaded", name, plugins[name], <<>>))]
    /\ UNCHANGED <<commands, commandOrder, registered, preExecutionMiddleware, postExecutionMiddleware,
                   cooldowns, timers, now, parse, uses, disp, loadedPlugins, load,
                   initialized>>

\* The loop without its try/catch: a destroy that throws ends the call.
DestroySettleNoCatch(ok) ==
    /\ unload.pc = "destroy"
    /\ unload' = [unload EXCEPT
                     !.pc = IF ok THEN "loop" ELSE "failed",
                     !.log = Append(@, PEntry(IF ok THEN "unloaded" ELSE "destroyError",
                                              unload.current, plugins[unload.current], <<>>))]
    /\ UNCHANGED <<commands, commandOrder, registered, plugins, preExecutionMiddleware,
                   postExecutionMiddleware, cooldowns, timers, now, parse, uses, disp,
                   loadedPlugins, load, initialized>>

\* `await plugin.destroy?.()` settles: destroy returned, or it threw and the
\* catch block logs the failure; the loop goes on.
DestroySettle(ok) ==
    /\ unload.pc = "destroy"
    /\ unload' = [unload EXCEPT
                     !.pc = "loop",
                     !.log = Append(@, PEntry(IF ok THEN "unloaded" ELSE "destroyError",
                                              unload.current, plugins[unload.current], <<>>))]
    /\ UNCHANGED <<commands, commandOrder, registered, plugins, preExecutionMiddleware,
                   postExecutionMiddleware, cooldowns, timers, now, parse, uses, disp,
                   loadedPlugins, load, initialized>>

\* The unloadPlugins call has returned.
UnloadEnd ==
    /\ unload.pc = "done"
    /\ unload' = IdleUnload
    /\ UNCHANGED <<commands, commandOrder, registered, plugins, preExecutionMiddleware,
                   postExecutionMiddleware, cooldowns, timers, now, parse, uses, disp,
                   loadedPlugins, load, initialized>>

RECURSIVE SeqsOver(_, _)
\* The sequences of at most n distinct elements of S.
SeqsOver(S, n) ==
    IF n = 0 THEN {<<>>}
    ELSE LET shorter == SeqsOver(S, n - 1)
         IN  shorter \cup
             {Append(q, x) : q \in {t \in shorter : Len(t) = n - 1}, x \in S}

NoRepeat(q) == \A i, j \in 1..Len(q) : q[i] = q[j] => i = j

Batches == {q \in SeqsOver(PluginObjects, MaxBatch) : q # <<>> /\ NoRepeat(q)}

\* unloadPlugins called while no loadPlugins call is in progress and some
\* plugin is live.
UnloadWhenLoaded ==
    /\ load.pc = "idle"
    /\ plugins # EmptyMap
    /\ unloadPlugins

NextPlugins ==
    \/ \E b \in Batches : LoadPlugins(b)
    \/ \E ok \in BOOLEAN : InitSettle(ok)
    \/ LoadEnd
    \/ UnloadWhenLoaded
    \/ UnloadNext
    \/ \E ok \in BOOLEAN : DestroySettle(ok)
    \/ UnloadEnd

SpecPlugins == Init /\ [][NextPlugins]_vars

\* Shutdown: unloadPlugins is called once, at any moment, also while a
\* loadPlugins call waits for an init; no loadPlugins call starts once it
\* has been called.
NextTeardown ==
    \/ \E b \in Batches : LoadPlugins(b)
    \/ \E ok \in BOOLEAN : InitSettle(ok)
    \/ LoadEnd
    \/ unloadPlugins
    \/ UnloadNext
    \/ \E ok \in BOOLEAN : DestroySettle(ok)

SpecTeardown == Init /\ [][NextTeardown]_vars

\* loadPlugins calls over dependency graphs of every shape the sort
\* distinguishes: chains, a shared dependency, dependencies outside the
\* batch, two objects of one name, a two-plugin cycle and a self-dependency.
SortObjects == PluginObjects \cup {PluginE, PluginF, PluginG}

SortBatches == {q \in SeqsOver(SortObjects, MaxBatch) : q # <<>> /\ NoRepeat(q)}

NextSort ==
    \/ \E batch \in SortBatches : LoadPlugins(batch)
    \/ \E ok \in BOOLEAN : InitSettle(ok)
    \/ LoadEnd

SpecSort == Init /\ [][NextSort]_vars

\* Plugins that contribute commands and middleware are loaded and unloaded
\* while commands are dispatched.
RetireBatches == {<<PluginP>>, <<PluginS>>}

RetireNames == {"ping", "slow"}

NextRetire ==
    \/ \E batch \in RetireBatches : LoadPlugins(batch)
    \/ \E ok \in BOOLEAN : InitSettle(ok)
    \/ LoadEnd
    \/ UnloadWhenLoaded
    \/ UnloadNext
    \/ \E ok \in BOOLEAN : DestroySettle(ok)
    \/ UnloadEnd
    \/ \E d \in Dispatches, n \in RetireNames : HandleInteraction(d, n, "u1")
    \/ DispatchSteps

SpecRetire == Init /\ [][NextRetire]_vars

\* Middleware registered directly and by a plugin, in either order, and
\* dispatches through the lists they build.
OrderMiddleware == {"pass", "halt"}

OrderBatches == {<<PluginP>>, <<PluginQ>>, <<PluginQ, PluginP>>}

NextOrder ==
    \/ \E mw \in OrderMiddleware : registerPreExecutionMiddleware(mw)
    \/ registerPostExecutionMiddleware("pass")
    \/ \E batch \in OrderBatches : LoadPlugins(batch)
    \/ \E ok \in BOOLEAN : InitSettle(ok)
    \/ LoadEnd
    \/ Dispatch

SpecOrder == Init /\ [][NextOrder]_vars

\* ----------------------------------------------------------- OptionParser
\* The guild of the message or interaction: the ids of its members and of
\* its channels.
MemberIds == {"123456789"}

ChannelIds == {"3"}

\* parseFloat on the tokens used here: the longest numeric prefix, NaN when
\* there is none.
ParseFloat(arg) ==
    CASE arg = "123456789" -> Num(123456789)
      [] arg = "1" -> Num(1)
      [] arg = "3" -> Num(3)
      [] arg = "12abc" -> Num(12)
      [] OTHER -> NaN

\* arg.replace(/[^0-9]/g, "") on the tokens used here
StripNonDigits(arg) ==
    CASE arg = "123456789" -> "123456789"
      [] arg = "<@123456789>" -> "123456789"
      [] arg = "1" -> "1"
      [] arg = "3" -> "3"
      [] arg = "12abc" -> "12"
      [] OTHER -> ""

\* value + "" on the values an interaction carries here
ToText(v) ==
    CASE v.kind = "string" -> v.str
      [] v = Num(1) -> "1"
      [] v = Num(2) -> "2"
      [] v = Num(3) -> "3"
      [] v = Bool(TRUE) -> "true"
      [] OTHER -> ""

\* !value
Falsy(v) ==
    \/ v = Undefined
    \/ v = NaN
    \/ v = Num(0)
    \/ v = Str("")
    \/ v = Bool(FALSE)

RECURSIVE Join(_)
\* args.join(" ")
Join(args) ==
    IF args = <<>> THEN ""
    ELSE IF Len(args) = 1 THEN Head(args)
    ELSE Head(args) \o " " \o Join(Tail(args))

\* guild.members.cache.get(id) and guild.channels.cache.get(id)
CachedMember(id) == IF id \in MemberIds THEN Member(id) ELSE Undefined

CachedChannel(id) == IF id \in ChannelIds THEN Channel(id) ELSE Undefined

\* The callback of options.map in extractArgsFromInteractionOptions, for an
\* option whose interaction.options.get(name, required) did not throw.
InteractionValue(option, provided) ==
    IF option.name \notin DOMAIN provided THEN Undefined
    ELSE LET value == provided[option.name]
         IN  IF Falsy(value) THEN Undefined
             ELSE CASE option.type \in {"STRING", "NUMBER", "BOOLEAN"} -> value
                    [] option.type = "USER" -> CachedMember(ToText(value))
                    [] option.type \in {"VOICE_CHANNEL", "TEXT_CHANNEL"} ->
                           CachedChannel(ToText(value))
                    [] OTHER -> Undefined

\* extractArgsFromInteractionOptions: the parse call p with its result.
\* interaction.options.get throws for a required option that is not there.
extractArgsFromInteractionOptions(p) ==
    IF \E k \in 1..Len(p.options) :
           p.options[k].required /\ p.options[k].name \notin DOMAIN p.provided
    THEN [p EXCEPT !.pc = "done", !.error = "Required option not found"]
    ELSE [p EXCEPT !.pc = "done",
                   !.parsedArgs = [k \in 1..Len(p.options) |->
                                      InteractionValue(p.options[k], p.provided)]]

\* One turn of the loop of extractArgsFromMessage over the parse call p.
extractArgsFromMessage(p) ==
    LET option == p.options[p.i]
        noArg == p.args = <<>>
        arg == IF noArg THEN "" ELSE Head(p.args)
        seen == [p EXCEPT !.rest = Append(@, p.args)]
        Throw(message) == [seen EXCEPT !.pc = "done", !.error = message]
        Pushed(value, shift) ==
            [seen EXCEPT !.parsedArgs = Append(@, value),
                         !.args = IF shift THEN Tail(@) ELSE @,
                         !.i = @ + 1,
                         !.pc = IF p.i < Len(p.options) THEN "loop" ELSE "done"]
    IN  IF option.required /\ noArg THEN Throw("Missing required argument")
        ELSE IF noArg THEN Pushed(option.defaultValue, FALSE)
        ELSE IF option.required /\ option.collect
        THEN [seen EXCEPT !.parsedArgs = Append(@, Str(Join(p.args))), !.pc = "done"]
        ELSE CASE option.type = "STRING" -> Pushed(Str(arg), TRUE)
               [] option.type = "NUMBER" ->
                      IF ParseFloat(arg) = NaN THEN Throw("Invalid number")
                      ELSE Pushed(ParseFloat(arg), TRUE)
               [] option.type = "BOOLEAN" ->
                      IF ToLowerCase(arg) \notin {"true", "false"}
                      THEN Throw("Invalid boolean")
                      ELSE Pushed(Bool(ToLowerCase(arg) = "true"), TRUE)
               [] option.type = "USER" ->
                      IF StripNonDigits(arg) \notin MemberIds
                      THEN Throw("User not found")
                      ELSE Pushed(Member(StripNonDigits(arg)), TRUE)
               [] option.type \in {"TEXT_CHANNEL", "VOICE_CHANNEL"} ->
                      IF CachedChannel(StripNonDigits(arg)) = Undefined
                      THEN Throw("Channel not found")
                      ELSE Pushed(CachedChannel(StripNonDigits(arg)), TRUE)
               [] OTHER -> Throw("Unsupported argument type")

\* The option schemas of the commands parsed here.
UserOption == Option("user", "USER", TRUE, FALSE, Undefined, FALSE, {})

ReasonOption == Option("reason", "STRING", FALSE, TRUE, Undefined, FALSE, {})

RequiredReasonOption == Option("reason", "STRING", TRUE, TRUE, Undefined, FALSE, {})

LevelOption == Option("level", "NUMBER", FALSE, FALSE, Num(5), TRUE, {Num(1), Num(2)})

NoteOption == Option("note", "STRING", FALSE, FALSE, Str("none"), FALSE, {})

CountOption == Option("count", "INTEGER", TRUE, FALSE, Undefined, FALSE, {})

FlagOption == Option("flag", "BOOLEAN", FALSE, FALSE, Bool(TRUE), FALSE, {})

RoomOption == Option("room", "TEXT_CHANNEL", TRUE, FALSE, Undefined, FALSE, {})

OptionLists ==
    {<<UserOption, ReasonOption>>, <<UserOption, RequiredReasonOption>>,
     <<LevelOption, NoteOption>>, <<CountOption>>, <<RoomOption, FlagOption>>}

\* The tokens of the messages, and the message of the ban scenario.
Words == {"123456789", "<@123456789>", "1", "3", "12abc", "abc", "TRUE"}

BanTokens == <<"123456789", "being", "rude", "to", "people">>

TokenLists == SeqsOver(Words, MaxTokens) \cup {BanTokens}

\* The values an interaction carries for an option: a subset of the option
\* names of the schema, each with one value.
ProvidedValues ==
    {Num(0), Num(1), Num(2), Num(3), Str("123456789"), Str("3"), Bool(TRUE)}

OptionNames(options) == {options[k].name : k \in 1..Len(options)}

ProvidedMaps(options) ==
    UNION {[names -> ProvidedValues] : names \in SUBSET OptionNames(options)}

\* parseOptions(options, message, interop, args), up to the loop
ParseMessage(options, tokens) ==
    /\ parse.pc = "idle"
    /\ parse' = [IdleParse EXCEPT !.pc = IF options = <<>> THEN "done" ELSE "loop",
                                  !.source = "message", !.options = options,
                                  !.tokens = tokens, !.args = tokens]
    /\ UNCHANGED <<commands, commandOrder, registered, plugins,
                   preExecutionMiddleware, postExecutionMiddleware, cooldowns,
                   timers, now, uses, disp, pmVars>>

\* one turn of the loop
ParseStep ==
    /\ parse.pc = "loop"
    /\ parse' = extractArgsFromMessage(parse)
    /\ UNCHANGED <<commands, commandOrder, registered, plugins,
                   preExecutionMiddleware, postExecutionMiddleware, cooldowns,
                   timers, now, uses, disp, pmVars>>

\* parseOptions(options, interaction, interop)
ParseInteraction(options, provided) ==
    /\ parse.pc = "idle"
    /\ parse' = extractArgsFromInteractionOptions(
                    [IdleParse EXCEPT !.source = "interaction",
                                      !.options = options, !.provided = provided])
    /\ UNCHANGED <<commands, commandOrder, registered, plugins,
                   preExecutionMiddleware, postExecutionMiddleware, cooldowns,
                   timers, now, uses, disp, pmVars>>

\* The promise of parseOptions has settled.
ParseEnd ==
    /\ parse.pc = "done"
    /\ parse' = IdleParse
    /\ UNCHANGED <<commands, commandOrder, registered, plugins,
                   preExecutionMiddleware, postExecutionMiddleware, cooldowns,
                   timers, now, uses, disp, pmVars>>

\* The option parser on its own, over the schemas and inputs above.
NextParser ==
    \/ \E o \in OptionLists, t \in TokenLists : ParseMessage(o, t)
    \/ ParseStep
    \/ \E o \in OptionLists : \E v \in ProvidedMaps(o) : ParseInteraction(o, v)
    \/ ParseEnd

SpecParser == Init /\ [][NextParser]_vars

\* ------------------------------------------------ reading a dispatch log
Has(log, e) == \E k \in 1..Len(log) : log[k] = e

\* The position of the first occurrence of e in log, 0 if there is none.
Pos(log, e) ==
    IF Has(log, e)
    THEN CHOOSE k \in 1..Len(log) : log[k] = e /\ \A j \in 1..(k - 1) : log[j] # e
    ELSE 0

Count(log, e) == Cardinality({k \in 1..Len(log) : log[k] = e})

\* The entries of a kind.
OfKind(log, kind) == SelectSeq(log, LAMBDA e : e.k = kind)

BodyInvoked(r) == Has(r.log, Step("body"))

PostMiddlewareRan(r) == \E k \in 1..Len(r.log) : r.log[k].k = "call" /\ r.log[k].n = "post"

PreMiddlewareRan(r) == \E k \in 1..Len(r.log) : r.log[k].k = "call" /\ r.log[k].n = "pre"

HookRan(r) ==
    \E k \in 1..Len(r.log) :
        r.log[k].k = "call" /\ r.log[k].n \in {"provideCommandArguments", "onCommandCall"}

\* Pre-execution middleware i of the dispatch called next() / returned
\* without an exception.
CalledNext(r, i) == Has(r.log, Entry("next", "pre", i, ""))

Returned(r, i) == Has(r.log, Ret("pre", i, ""))

\* ------------------------------------------------------------------- C1
\* C1: in every dispatch the command body runs only if every pre-execution
\* middleware of the chain called next(), and if some pre-execution
\* middleware returned without ever calling next() then neither the command
\* body nor any post-execution middleware runs in that dispatch.
C1_BodyOnlyIfAllCalledNext ==
    \A d \in Dispatches :
        LET r == disp[d]
        IN  /\ BodyInvoked(r) =>
                   \A i \in 0..(Len(r.chain) - 1) : CalledNext(r, i)
            /\ (\E i \in 0..(Len(r.chain) - 1) : Returned(r, i) /\ ~CalledNext(r, i))
                   => ~BodyInvoked(r) /\ ~PostMiddlewareRan(r)

\* ------------------------------------------------------------------- C2
\* C2: a dispatch whose cooldown check found the user on cooldown
\* (cooldownActive emitted) terminates early: it runs neither the
\* pre-execution middleware chain nor the command body.
C2_CooldownActiveTerminates ==
    \A d \in Dispatches :
        Has(disp[d].log, Emit("cooldownActive", "")) =>
            /\ ~Has(disp[d].log, Step("preChain"))
            /\ ~BodyInvoked(disp[d])

\* ------------------------------------------------------------------- C3
\* The command of the dispatch declares required permissions and the
\* invoking user has no guild member holding all of them.
LacksPermissions(r) ==
    /\ r.command.hasPermissions
    /\ r.command.permissions # {}
    /\ \/ ~HasMember(r.user)
       \/ \E perm \in r.command.permissions : perm \notin MemberPermissions(r.user)

\* C3: when the command declares required permissions and the invoking
\* member lacks them, the dispatch that reaches the permission check emits
\* permissionDenied once and ends there: no plugin hook, no pre-execution
\* middleware, no command body and no post-execution middleware runs.
C3_PermissionDeniedTerminates ==
    \A d \in Dispatches :
        LET r == disp[d]
        IN  Has(r.log, Step("permission")) /\ LacksPermissions(r) =>
                /\ r.pc = "done"
                /\ r.log[Len(r.log)] = Emit("permissionDenied", "")
                /\ Count(r.log, Emit("permissionDenied", "")) = 1
                /\ r.log[Len(r.log) - 1] = Step("permission")
                /\ ~HookRan(r) /\ ~PreMiddlewareRan(r) /\ ~PostMiddlewareRan(r)
                /\ ~BodyInvoked(r)

\* Witness of C3: a dispatch of a command that requires BanMembers, by a
\* member without it, has been denied.
C3_Witness ==
    \E d \in Dispatches :
        /\ disp[d].command.name = "ban" /\ disp[d].user = "u2"
        /\ Has(disp[d].log, Emit("permissionDenied", ""))

\* --------------------------------------------- reading a loadPlugins log
\* The names of the plugins whose init the call has invoked, in order.
InitOrder(log) ==
    LET inits == SelectSeq(log, LAMBDA e : e.k = "init")
    IN  [k \in 1..Len(inits) |-> inits[k].name]

BatchNames(batch) == {batch[k].name : k \in 1..Len(batch)}

\* The names plugin `name` of the batch depends on (by its last object of
\* that name, as in the dependency graph).
DependsOn(batch, name) ==
    {GraphGet(batch, name)[k] : k \in 1..Len(GraphGet(batch, name))}

RECURSIVE ReachableIn(_, _, _)
\* The names reachable from the names S along at most n dependency edges.
ReachableIn(batch, S, n) ==
    IF n = 0 THEN S
    ELSE ReachableIn(batch, S \cup UNION {DependsOn(batch, x) : x \in S}, n - 1)

\* Plugin `name` is on a dependency cycle of the batch.
OnCycle(batch, name) ==
    name \in ReachableIn(batch, DependsOn(batch, name), Len(batch))

HasCycle(batch) == \E name \in BatchNames(batch) : OnCycle(batch, name)

\* ------------------------------------------------------------------- C4
\* C4: with A (no dependencies), B (depends on A) and C (depends on B) not
\* loaded before, one loadPlugins call with the list [C, B, A] invokes init
\* for all three, in the order A, B, C.
C4_InitOrderABC ==
    (/\ load.pc = "done"
     /\ load.batch = <<PluginC, PluginB, PluginA>>
     /\ DOMAIN load.before \cap {"A", "B", "C"} = {})
        => InitOrder(load.log) = <<"A", "B", "C">>

\* ------------------------------------------------------------------- C5
\* The path of a cycle error names a cycle: it ends where it returns to a
\* plugin already on it, and from there every name depends on the next.
NamesCycle(batch, path) ==
    \E k \in 1..(Len(path) - 1) :
        /\ path[k] = path[Len(path)]
        /\ \A j \in k..(Len(path) - 1) : path[j + 1] \in DependsOn(batch, path[j])
        /\ \A j \in k..Len(path) : OnCycle(batch, path[j])

\* C5: when the dependency graph of the batch of a loadPlugins call has a
\* cycle, the call fails with one cycle error that names plugins on a cycle,
\* and init is invoked for no plugin of the batch.
C5_CycleFailsBatch ==
    (load.pc # "idle" /\ HasCycle(load.batch)) =>
        /\ load.pc = "done"
        /\ Len(load.log) = 1
        /\ load.log[1].k = "cycle"
        /\ NamesCycle(load.batch, load.log[1].names)
        /\ InitOrder(load.log) = <<>>

\* Witness of C5: the batch [X, Y], X and Y depending on each other, has
\* failed with a cycle error that names X and Y.
C5_Witness ==
    /\ load.pc = "done"
    /\ load.batch = <<PluginX, PluginY>>
    /\ load.log = <<PEntry("cycle", "", 0, <<"X", "Y", "X">>)>>

\* ------------------------------------------------------------------- C6
\* Dependency dep was met by an init that completed successfully.
WasInitialized(dep) ==
    \E v \in dep.version : <<dep.name, v>> \in initialized

\* C6: whenever loadPlugins invokes init of a plugin, every dependency the
\* plugin declares has previously completed init successfully with a
\* version in the declared range; a plugin with a dependency that failed
\* init, was never loaded or has an incompatible version is not initialized.
C6_InitOnlyWithDependencies ==
    load.pc = "init" =>
        LET p == load.valid[load.current]
        IN  /\ Has(load.log, PEntry("init", p.name, p.version, <<>>))
            /\ \A k \in 1..Len(p.dependencies) : WasInitialized(p.dependencies[k])

\* Witness of C6: init of B, which depends on A, is invoked after A loaded.
C6_Witness ==
    /\ load.pc = "init"
    /\ load.valid[load.current] = PluginB
    /\ <<"A", 1>> \in initialized

\* The position of the first entry of kind `kind` about `n`, 0 if none.
PosOf(log, kind, n) ==
    LET ks == {k \in 1..Len(log) : log[k].k = kind /\ log[k].n = n}
    IN  IF ks = {} THEN 0 ELSE CHOOSE k \in ks : \A j \in ks : k <= j

\* ------------------------------------------------------------------- C7
\* C7: in every dispatch the post-execution chain is started only after the
\* command body has settled, and once an invoked body has settled, by
\* returning or by throwing, the post-execution chain is started.
C7_PostChainAfterBodySettled ==
    \A d \in Dispatches :
        LET r == disp[d]
            settled == PosOf(r.log, "ret", "body")
            post == PosOf(r.log, "step", "postChain")
        IN  /\ post # 0 => settled # 0 /\ settled < post
            /\ (settled # 0 /\ r.exc # "bodyError") => post # 0

\* Witness of C7: a command body threw and the post-execution chain of the
\* dispatch was started afterwards.
C7_Witness ==
    \E d \in Dispatches :
        /\ Has(disp[d].log, Ret("body", 0, "bodyError"))
        /\ Has(disp[d].log, Step("postChain"))

\* ------------------------------------------------------------------- C8
\* C8: an exception thrown by the command body is caught where the body is
\* invoked: the dispatch emits exactly one commandExecutionError carrying
\* it and no middlewareError carrying it, and it never propagates into the
\* pre-execution middleware awaiting next().
C8_BodyErrorCaught ==
    \A d \in Dispatches :
        LET r == disp[d]
        IN  Has(r.log, Ret("body", 0, "bodyError")) =>
                /\ ~Has(r.log, Emit("middlewareError", "bodyError"))
                /\ Count(r.log, Emit("commandExecutionError", "bodyError")) =
                       (IF r.exc = "bodyError" THEN 0 ELSE 1)
                /\ r.exc = "bodyError" =>
                       /\ r.stack # <<>>
                       /\ Top(r).f = "term" /\ Top(r).ph = "body"
                /\ r.pc # "unhandled"

\* Witness of C8: a dispatch whose body threw has finished, having emitted
\* commandExecutionError.
C8_Witness ==
    \E d \in Dispatches :
        /\ disp[d].pc = "done"
        /\ Has(disp[d].log, Emit("commandExecutionError", "bodyError"))

StepOrder ==
    <<"lookup", "resolve", "permission", "cooldown", "preChain", "body", "postChain">>

Begun(log, n) == PosOf(log, "step", n)

\* Where a step settled: the lookup, the permission check and the cooldown
\* check are synchronous and have settled when they have begun; the others
\* settle when the awaited call returns or throws.
Settled(log, n) ==
    IF n \in {"lookup", "permission", "cooldown"} THEN PosOf(log, "step", n)
    ELSE PosOf(log, "ret", n)

\* Step i of StepOrder began only after step i - 1 had begun and settled.
AfterPrevious(log, i) ==
    Begun(log, StepOrder[i]) # 0 =>
        /\ Begun(log, StepOrder[i - 1]) # 0
        /\ Settled(log, StepOrder[i - 1]) # 0
        /\ Settled(log, StepOrder[i - 1]) < Begun(log, StepOrder[i])

C11_UnknownInteraction ==
    [][\A d \in Dispatches :
          LET r == disp[d]
              r2 == disp'[d]
          IN  /\ (/\ r.pc = "idle" /\ r2.pc # "idle"
                  /\ r2.via = "interaction"
                  /\ r2.name \notin DOMAIN commands)
                     => /\ r2.pc = "done"
                        /\ r2.log = <<Step("lookup"), Emit("commandNotFound", "")>>
                        /\ UNCHANGED <<commands, commandOrder, registered, cooldowns, timers>>
              /\ (/\ r.pc = "done" /\ r.via = "interaction"
                  /\ Has(r.log, Emit("commandNotFound", ""))
                  /\ r2 # r)
                     => /\ r2 = IdleDispatch
                        /\ UNCHANGED <<commands, commandOrder, registered, cooldowns, timers>>]_vars

\* Witness of C11: the interaction for "nope", which is not registered
\* while other commands are, has ended with commandNotFound.
C11_Witness ==
    \E d \in Dispatches :
        /\ disp[d].pc = "done" /\ disp[d].via = "interaction"
        /\ disp[d].name = "nope" /\ commands # EmptyMap
        /\ Has(disp[d].log, Emit("commandNotFound", ""))

\* ------------------------------------------------------------------ C12
\* C12: no failed dispatch is dropped silently: a dispatch that ended
\* before its pre-execution chain emitted an event, and one whose lookup
\* found no command, by name or alias, emitted commandNotFound, for a
\* prefixed text message as for an interaction.
C12_UnknownCommandReported ==
    \A d \in Dispatches :
        LET r == disp[d]
        IN  /\ (r.pc = "done" /\ ~Has(r.log, Step("preChain")))
                   => \E k \in 1..Len(r.log) : r.log[k].k = "emit"
            /\ (r.pc = "done" /\ r.command = NoCommand)
                   => Has(r.log, Emit("commandNotFound", ""))

\* ------------------------------------------------------------------ C13
\* C13: a text message outside a guild for a command with inDM = false
\* emits invalidContext and runs neither argument resolution, middleware nor
\* the body; for a command with inDM = true it emits no invalidContext and
\* goes on to argument resolution.
C13_GuildOnlyRefusedInDM ==
    \A d \in Dispatches :
        LET r == disp[d]
        IN  (r.via = "message" /\ ~r.guild /\ r.command # NoCommand) =>
                IF ~r.command.inDM
                THEN /\ Has(r.log, Emit("invalidContext", ""))
                     /\ ~Has(r.log, Step("resolve"))
                     /\ ~PreMiddlewareRan(r) /\ ~BodyInvoked(r)
                ELSE /\ ~Has(r.log, Emit("invalidContext", ""))
                     /\ Has(r.log, Step("resolve"))

\* ---------------------------------------------- reading the check history
\* The cooldown checks of one command for one user, in order.
UsesOf(cmd, u) == SelectSeq(uses, LAMBDA x : x.cmd = cmd /\ x.user = u)

\* ------------------------------------------------------------------ C14
\* C14: for the command with a cooldown of 5 seconds and one user, the
\* first check (t=0) reports no cooldown and records the time; a second
\* check 2 seconds later reports the cooldown with 3 seconds left; a third
\* check 6 seconds after the first reports no cooldown.
C14_CooldownScenario ==
    \A u \in Users :
        LET us == UsesOf(SlowCommand.name, u)
        IN  /\ Len(us) >= 1 => ~us[1].active
            /\ (Len(us) = 1 /\ now = us[1].at) =>
                   /\ SlowCommand.name \in DOMAIN cooldowns
                   /\ u \in DOMAIN cooldowns[SlowCommand.name]
                   /\ cooldowns[SlowCommand.name][u] = us[1].at * 1000
            /\ (Len(us) >= 2 /\ us[2].at = us[1].at + 2) =>
                   us[2].active /\ us[2].timeLeft = 3
            /\ (Len(us) >= 3 /\ us[2].at = us[1].at + 2 /\ us[3].at = us[1].at + 6) =>
                   ~us[3].active

\* Witness of C14: the three checks of the scenario have been made.
C14_Witness ==
    LET us == UsesOf(SlowCommand.name, "u1")
    IN  /\ Len(us) = 3
        /\ us[2].at = us[1].at + 2 /\ us[3].at = us[1].at + 6
        /\ ~us[1].active /\ us[2].active /\ us[2].timeLeft = 3 /\ ~us[3].active

\* ------------------------------------------------------------------ C15
\* C15: for a command with a positive cooldown, every dispatch that passes
\* the permission check and so reaches the cooldown check writes the
\* current time as the user's timestamp and sets a timer that removes it
\* after the cooldown, whether or not it reported the user on cooldown.
C15_StampedUnconditionally ==
    [][\A d \in Dispatches :
          LET r == disp[d]
              c == r.command
          IN  (/\ r.pc = "handler" /\ disp'[d].pc = "pluginArgs"
               /\ c.hasCooldown /\ c.cooldown > 0)
                  => /\ c.name \in DOMAIN cooldowns'
                     /\ r.user \in DOMAIN cooldowns'[c.name]
                     /\ cooldowns'[c.name][r.user] = now * 1000
                     /\ \E t \in timers' \ timers :
                            /\ t.cmd = c.name /\ t.user = r.user
                            /\ t.due = now * 1000 + c.cooldown * 1000]_vars

\* Witness of C15: a dispatch that reported the user on cooldown has
\* replaced the earlier timestamp by the current time.
C15_Witness ==
    \E d \in Dispatches :
        LET r == disp[d]
        IN  /\ r.pc = "pluginArgs"
            /\ Has(r.log, Emit("cooldownActive", ""))
            /\ Len(uses) >= 2
            /\ uses[Len(uses)].active /\ uses[Len(uses)].at = now
            /\ uses[Len(uses) - 1].cmd = r.command.name
            /\ uses[Len(uses) - 1].user = r.user
            /\ uses[Len(uses) - 1].at < now
            /\ cooldowns[r.command.name][r.user] = now * 1000
            /\ Cardinality({t \in timers : t.cmd = r.command.name /\ t.user = r.user}) = 2

\* ------------------------------------------------------------------ C16
\* C16: every entry of the cooldown ledger was stamped less than the
\* cooldown of its command ago: it exists only during its cooldown window.
C16_EntriesWithinWindow ==
    \A n \in DOMAIN cooldowns :
        \A u \in DOMAIN cooldowns[n] :
            n \in DOMAIN commands =>
                now * 1000 - cooldowns[n][u] < commands[n].cooldown * 1000

\* ------------------------------------------------------------------ C17
\* C17: the dispatch of a command whose cooldown is 0, negative or absent
\* does no cooldown tracking: the ledger and the timers are left as they
\* were and cooldownActive is not emitted.
C17_NoTrackingWithoutCooldown ==
    [][\A d \in Dispatches :
          LET r == disp[d]
              c == r.command
          IN  (/\ r.pc = "handler" /\ disp'[d].pc # "handler"
               /\ (~c.hasCooldown \/ c.cooldown <= 0))
                  => /\ UNCHANGED <<cooldowns, timers>>
                     /\ ~Has(disp'[d].log, Emit("cooldownActive", ""))]_vars

\* --------------------------------------------- reading a loadPlugins call
\* The dependencies of a plugin that are not in the live registry `live`
\* with a version in the declared range.
Unmet(plugin, live) ==
    SelectSeq(plugin.dependencies,
              LAMBDA dep : \/ dep.name \notin DOMAIN live
                           \/ ~satisfies(live[dep.name], dep.version))

\* init was invoked for the plugin of that name.
InitInvoked(log, name) ==
    \E k \in 1..Len(log) : log[k].k = "init" /\ log[k].name = name

\* Every plugin of the batch whose dependencies were satisfied when the
\* call began has had its init invoked.
SatisfiedInitialized(l) ==
    \A k \in 1..Len(l.batch) :
        Unmet(l.batch[k], l.live) = <<>> => InitInvoked(l.log, l.batch[k].name)

\* ------------------------------------------------------------------ C18
\* C18: when the init of a plugin throws during loadPlugins, pluginInitError
\* is emitted for that plugin, the live registry, the commands, the
\* middleware and the recorded versions stay as they were, and the call
\* still invokes init of every other plugin of the batch whose dependencies
\* are satisfied.
C18_InitFailureIsolated ==
    [][/\ (/\ load.pc = "init"
           /\ Len(load'.log) > Len(load.log)
           /\ load'.log[Len(load.log) + 1].k = "initError")
              => /\ load'.log[Len(load.log) + 1] =
                        PEntry("initError", load.valid[load.current].name,
                               load.valid[load.current].version, <<>>)
                 /\ UNCHANGED <<plugins, commands, commandOrder, registered, preExecutionMiddleware,
                                postExecutionMiddleware, loadedPlugins>>
       /\ (/\ load'.pc = "done"
           /\ \E k \in 1..Len(load'.log) : load'.log[k].k = "initError")
              => SatisfiedInitialized(load')]_vars

\* Witness of C18: in the batch [B, A], with A loaded before, the init of A
\* threw and the init of B was invoked after it.
C18_Witness ==
    /\ load.pc = "done"
    /\ load.batch = <<PluginB, PluginA>>
    /\ Has(load.log, PEntry("initError", "A", 1, <<>>))
    /\ Pos(load.log, PEntry("initError", "A", 1, <<>>))
           < Pos(load.log, PEntry("init", "B", 1, <<>>))

\* ------------------------------------------------------------------ C19
\* C19: in a loadPlugins call that reaches its load pass (no dependency
\* cycle), a plugin with a dependency that is not in the live registry or is
\* there with an incompatible version gets a dependency error naming it
\* and its unmet dependencies and is not initialized, and every plugin of
\* the batch with satisfied dependencies is still initialized.
C19_UnmetDependenciesExcluded ==
    (load.pc # "idle" /\ ~HasCycle(load.batch)) =>
        /\ \A k \in 1..Len(load.batch) :
               LET p == load.batch[k]
               IN  (p.hasDependencies /\ Unmet(p, load.live) # <<>>) =>
                       /\ Has(load.log,
                              PEntry("missingDeps", p.name, p.version,
                                     DepNames(Unmet(p, load.live))))
                       /\ ~Has(load.log, PEntry("init", p.name, p.version, <<>>))
        /\ load.pc = "done" => SatisfiedInitialized(load)

\* ------------------------------------------------------------------ C20
\* The number of times the unloadPlugins call invoked destroy of a plugin.
Destroyed(name) ==
    Cardinality({k \in 1..Len(unload.log) :
                    unload.log[k].k = "destroy" /\ unload.log[k].name = name})

\* C20: unloadPlugins invokes destroy once for every plugin of the live
\* registry that has one, also after the destroy of another plugin threw;
\* no destroy failure ends the call, and when the call is over the live
\* registry is empty.
C20_UnloadDestroysAll ==
    /\ unload.pc \in {"idle", "loop", "destroy", "done"}
    /\ \A n \in DOMAIN unload.registry : Destroyed(n) <= 1
    /\ unload.pc = "done" =>
           /\ plugins = EmptyMap
           /\ \A n \in DOMAIN unload.registry :
                  Destroyed(n) = IF HasDestroy(n) THEN 1 ELSE 0

\* Witness of C20: an unloadPlugins call is over in which a destroy threw
\* and the destroy of another plugin was invoked after that.
C20_Witness ==
    /\ unload.pc = "done"
    /\ \E i, j \in 1..Len(unload.log) :
           /\ i < j
           /\ unload.log[i].k = "destroyError"
           /\ unload.log[j].k = "destroy"

\* ------------------------------------------------------------------ C21
\* C21: a loadPlugins call whose batch is only plugin B (which depends on A)
\* and that started while A was not in the live registry, A having been
\* loaded and later removed by unloadPlugins included, does not invoke the
\* init of B and reports B with the unmet dependency A.
C21_RemovedDependencyUnmet ==
    (/\ load.pc = "done"
     /\ load.batch = <<PluginB>>
     /\ "A" \notin DOMAIN load.live) =>
        /\ ~InitInvoked(load.log, "B")
        /\ Has(load.log, PEntry("missingDeps", "B", PluginB.version, <<"A">>))

\* ------------------------------------------------------------------ C22
\* C22: a dispatch whose argument resolution failed, on the interaction or
\* the message channel, has emitted invalidArgumentsGiven once as its last
\* step and is over: it made no permission check and no cooldown step and
\* ran no plugin hook, no middleware and no command body.
C22_ResolutionFailureTerminates ==
    \A d \in Dispatches :
        LET r == disp[d]
        IN  Has(r.log, Ret("resolve", 0, "argumentError")) =>
                /\ r.pc = "done"
                /\ r.via \in {"interaction", "message"}
                /\ r.log[Len(r.log)] = Emit("invalidArgumentsGiven", "argumentError")
                /\ r.log[Len(r.log) - 1] = Ret("resolve", 0, "argumentError")
                /\ Count(r.log, Emit("invalidArgumentsGiven", "argumentError")) = 1
                /\ ~Has(r.log, Step("permission")) /\ ~Has(r.log, Step("cooldown"))
                /\ ~Has(r.log, Step("preChain"))
                /\ ~HookRan(r) /\ ~PreMiddlewareRan(r) /\ ~PostMiddlewareRan(r)
                /\ ~BodyInvoked(r)

\* Witness of C22: the resolution of a text command of a guild member failed
\* and the dispatch is over.
C22_Witness ==
    \E d \in Dispatches :
        /\ disp[d].via = "message" /\ disp[d].command.name = "ban"
        /\ disp[d].pc = "done"
        /\ Has(disp[d].log, Emit("invalidArgumentsGiven", "argumentError"))

\* ------------------------------------------------------------------ C23
\* Option k of the finished parse call was given no value: no token was
\* left for it in the message, or the interaction carries no value under
\* its name.
NotProvided(p, k) ==
    IF p.source = "message" THEN p.rest[k] = <<>>
    ELSE p.options[k].name \notin DOMAIN p.provided

\* C23: in a parse call that returned, on either channel, every optional
\* option with a static default value that was given no value resolves to
\* exactly that default.
C23_DefaultWhenNotProvided ==
    (parse.pc = "done" /\ parse.error = "") =>
        \A k \in 1..Len(parse.parsedArgs) :
            LET option == parse.options[k]
            IN  (/\ ~option.required
                 /\ option.defaultValue # Undefined
                 /\ NotProvided(parse, k))
                    => parse.parsedArgs[k] = option.defaultValue

\* ------------------------------------------------------------------ C24
\* C24: in a free-text parse call that returned, a collect-marked STRING
\* option for which a token was left, required or optional, resolved to all
\* the tokens left joined by single spaces and was the last option handled;
\* for the options [user, optional collect reason] the tokens of
\* "!ban 123456789 being rude to people" resolve to the member 123456789
\* and "being rude to people".
C24_CollectJoinsRemaining ==
    (parse.pc = "done" /\ parse.error = "" /\ parse.source = "message") =>
        /\ \A k \in 1..Len(parse.parsedArgs) :
               LET option == parse.options[k]
               IN  (option.collect /\ option.type = "STRING" /\ parse.rest[k] # <<>>)
                       => /\ parse.parsedArgs[k] = Str(Join(parse.rest[k]))
                          /\ Len(parse.parsedArgs) = k
        /\ (parse.options = <<UserOption, ReasonOption>> /\ parse.tokens = BanTokens)
               => parse.parsedArgs =
                      <<Member("123456789"), Str("being rude to people")>>

\* ------------------------------------------------------------------ C25
\* C25: a structured parse call for an option that declares choices and
\* whose interaction carries a value for it returns that value unchanged
\* when it is one of the choices, and fails with ValidationFailed when it
\* is not: for the NUMBER option with choices {1, 2}, 1 and 2 are returned
\* and 3 fails.
C25_ChoicesConstrainValue ==
    (parse.pc = "done" /\ parse.source = "interaction") =>
        \A k \in 1..Len(parse.options) :
            LET option == parse.options[k]
            IN  (option.hasChoices /\ option.name \in DOMAIN parse.provided) =>
                    IF parse.provided[option.name] \in option.choices
                    THEN /\ parse.error = ""
                         /\ parse.parsedArgs[k] = parse.provided[option.name]
                    ELSE parse.error = "ValidationFailed"

\* ------------------------------------------------------------------ C26
\* C26: a parse call for an INTEGER option resolves it on both channels: a
\* free-text call parses a numeric token as the number and rejects a
\* non-numeric token with the failure a NUMBER option gives, and a
\* structured call returns the provided integer unchanged.
C26_IntegerResolvable ==
    (parse.pc = "done" /\ parse.options = <<CountOption>>) =>
        /\ (parse.source = "message" /\ parse.tokens # <<>>) =>
               IF ParseFloat(parse.tokens[1]) = NaN
               THEN parse.error = "Invalid number"
               ELSE /\ parse.error = ""
                    /\ parse.parsedArgs = <<ParseFloat(parse.tokens[1])>>
        /\ (/\ parse.source = "interaction"
            /\ "count" \in DOMAIN parse.provided
            /\ parse.provided["count"].kind = "number") =>
               /\ parse.error = ""
               /\ parse.parsedArgs = <<parse.provided["count"]>>

\* ------------------------------------------------------------------ C27
\* C27: no dispatch of a command whose permission list is empty or absent
\* emits permissionDenied, whoever the user is and whether or not a guild
\* member is available for them.
C27_EmptyPermissionsUnrestricted ==
    \A d \in Dispatches :
        LET r == disp[d]
        IN  (r.command # NoCommand /\ r.command.permissions = {}) =>
                ~Has(r.log, Emit("permissionDenied", ""))

\* ------------------------------------------------------------------ C28
\* The registered commands that own a word: as their name or as an alias.
Owners(word) ==
    {n \in DOMAIN commands : n = word \/ word \in commands[n].aliases}

\* The most recently registered of them.
LatestOwner(word) ==
    registered[CHOOSE k \in 1..Len(registered) :
                   /\ registered[k] \in Owners(word)
                   /\ \A j \in (k + 1)..Len(registered) : registered[j] \notin Owners(word)]

\* C28: a text invocation by a word that two registered commands own, as an
\* alias of both or as an alias of one and the name of the other, dispatches
\* to the one of them that was registered most recently.
C28_LastRegistrationWins ==
    [][\A d \in Dispatches :
          (/\ disp[d].pc = "idle" /\ disp'[d].pc # "idle"
           /\ disp'[d].via = "message"
           /\ Cardinality(Owners(disp'[d].name)) > 1)
              => disp'[d].command = commands[LatestOwner(disp'[d].name)]]_vars

\* ------------------------------------------------------------------ C29
\* C29: a dispatch that passed lookup, argument resolution, the permission
\* check and the cooldown block and started its pre-execution chain while no
\* pre-execution middleware was registered never invokes the command body
\* more than once, and has invoked it exactly once when it is over.
C29_EmptyChainInvokesBodyOnce ==
    \A d \in Dispatches :
        LET r == disp[d]
        IN  (Has(r.log, Step("preChain")) /\ r.chain = <<>>) =>
                /\ Count(r.log, Step("body")) <= 1
                /\ r.pc = "done" => Count(r.log, Step("body")) = 1

\* Witness of C29: a dispatch with an empty pre-execution chain is over and
\* its body was invoked.
C29_Witness ==
    \E d \in Dispatches :
        /\ disp[d].pc = "done" /\ disp[d].chain = <<>>
        /\ Has(disp[d].log, Step("preChain"))
        /\ Has(disp[d].log, Call("postPreExecution", 0))
        /\ Count(disp[d].log, Step("body")) = 1

\* ------------------------------------------------------------------ C30
IsPrefix(a, b) == Len(a) <= Len(b) /\ SubSeq(b, 1, Len(a)) = a

\* Every middleware of the list awaits next() once and returns.
Passing(list) == \A k \in 1..Len(list) : Script(list[k]) = <<"next">>

\* The invocations of a dispatch: of middleware, of postPreExecution and of
\* the command body, in the order they were made.
Invocations(log) ==
    SelectSeq(log, LAMBDA e :
        \/ e.k = "call" /\ e.n \in {"pre", "postPreExecution", "post"}
        \/ e = Step("body"))

\* n pre-execution middleware by index, the body, m post-execution
\* middleware by index.
InRegistrationOrder(n, m) ==
    [k \in 1..n |-> Call("pre", k - 1)]
        \o <<Call("postPreExecution", n), Step("body")>>
        \o [k \in 1..m |-> Call("post", k - 1)]

\* The plugin has been loaded once more by the step.
Loaded(p) ==
    Count(load'.log, PEntry("loaded", p.name, p.version, <<>>))
        > Count(load.log, PEntry("loaded", p.name, p.version, <<>>))

\* C30: a registration, direct or by a plugin, only appends to the pre- and
\* post-execution lists, and a plugin's middleware are appended when the
\* plugin is loaded, in the order the plugins load; a finished dispatch all of whose middleware await
\* next() invoked the pre-execution middleware of its chain in list order,
\* then the body, then the post-execution middleware in list order; and the
\* next() of the last post-execution middleware invoked nothing: that
\* middleware returns right after it.
C30_RegistrationOrder ==
    /\ [][/\ IsPrefix(preExecutionMiddleware, preExecutionMiddleware')
          /\ IsPrefix(postExecutionMiddleware, postExecutionMiddleware')
          /\ \A p \in {PluginP, PluginQ} :
                 Loaded(p) =>
                     /\ preExecutionMiddleware' =
                            preExecutionMiddleware \o p.preExecutionMiddleware
                     /\ postExecutionMiddleware' =
                            postExecutionMiddleware \o p.postExecutionMiddleware]_vars
    /\ [](\A d \in Dispatches :
            LET r == disp[d]
            IN  (/\ r.pc = "done" /\ Has(r.log, Step("preChain"))
                 /\ Passing(r.chain) /\ Passing(postExecutionMiddleware))
                    => \E m \in 0..Len(postExecutionMiddleware) :
                           /\ Invocations(r.log) = InRegistrationOrder(Len(r.chain), m)
                           /\ r.chain = SubSeq(preExecutionMiddleware, 1, Len(r.chain))
                           /\ m > 0 =>
                                  r.log[Pos(r.log, Entry("next", "post", m - 1, "")) + 1]
                                      = Ret("post", m - 1, ""))

\* Witness of C30: a finished dispatch ran a directly registered and a
\* plugin's pre-execution middleware, the body, and a directly registered
\* and a plugin's post-execution middleware.
C30_Witness ==
    \E d \in Dispatches :
        /\ disp[d].pc = "done"
        /\ disp[d].chain \in {<<"pass", "log">>, <<"log", "pass">>}
        /\ plugins = ("P" :> 1)
        /\ postExecutionMiddleware = <<"pass", "log">>
        /\ Invocations(disp[d].log) = InRegistrationOrder(2, 2)

\* ------------------------------------------------------------------ C31
\* Every invocation of the hook in the log comes after the next() of every
\* pre-execution middleware of the dispatch's chain.
HookAfterAllNext(r, hook) ==
    \A k \in 1..Len(r.log) :
        (r.log[k].k = "call" /\ r.log[k].n = hook) =>
            \A i \in 0..(Len(r.chain) - 1) :
                /\ CalledNext(r, i)
                /\ Pos(r.log, Entry("next", "pre", i, "")) < k

\* C31: in every dispatch the plugin hooks onCommandCall and
\* provideCommandArguments are invoked only after every pre-execution
\* middleware of the chain has called next(); a dispatch whose chain was
\* halted or failed by a pre-execution middleware invoked neither hook.
C31_HooksAfterPreExecution ==
    \A d \in Dispatches :
        /\ HookAfterAllNext(disp[d], "onCommandCall")
        /\ HookAfterAllNext(disp[d], "provideCommandArguments")

\* ------------------------------------------------------------------ C32
\* The dispatch waits for its command body to settle.
BodyPending(r) ==
    r.pc = "chain" /\ Top(r).f = "term" /\ Top(r).ph = "body"

\* C32: a dispatch that has started its pre-execution chain runs through to
\* its command body and its post-execution chain and ends, whatever the
\* other dispatch does: also when the other dispatch, begun before or after
\* it by the same or another user, waits forever for its command body or a
\* middleware.
C32_StalledDispatchStallsOnlyItself ==
    Has(disp[MaxTasks].log, Step("preChain")) ~>
        (/\ disp[MaxTasks].pc = "done"
         /\ BodyInvoked(disp[MaxTasks])
         /\ Has(disp[MaxTasks].log, Step("postChain")))

\* Witness of C32: the first dispatch still waits for its command body
\* while the other one, of the same command and user, has run its body and
\* its post-execution chain and is over.
C32_Witness ==
    /\ BodyPending(disp[1])
    /\ disp[MaxTasks].pc = "done"
    /\ disp[MaxTasks].user = disp[1].user
    /\ BodyInvoked(disp[MaxTasks])
    /\ Has(disp[MaxTasks].log, Call("post", 0))

\* ------------------------------------------------------------------ C33
\* C33: whenever a user's cooldown check of the command with a cooldown of
\* 5 seconds comes less than 5 seconds after that user's previous check of
\* it, the later check reports the user on cooldown, whichever of the
\* removal timers of earlier checks have fired in between.
C33_RepeatWithinWindowReported ==
    \A u \in Users :
        LET us == UsesOf(SlowCommand.name, u)
        IN  \A k \in 2..Len(us) :
                us[k].at - us[k - 1].at < SlowCommand.cooldown => us[k].active

\* ------------------------------------------------------------------ C34
\* The number of invocations of chain element i made by the dispatch.
Invoked(r, n, i) == Count(r.log, Call(n, i))

\* C34: within a dispatch the cursor of each run of the chain executor only
\* increases; every pre-execution middleware of the chain, postPreExecution
\* and every post-execution middleware is invoked at most once, and the
\* command body is invoked at most once, however often a middleware calls
\* next().
C34_CursorOnlyIncreases ==
    /\ [][\A d \in Dispatches :
             (disp[d].pc = "chain" /\ disp'[d].pc = "chain") =>
                 /\ disp'[d].index >= disp[d].index
                 /\ disp'[d].pindex >= disp[d].pindex]_vars
    /\ [](\A d \in Dispatches :
            LET r == disp[d]
            IN  /\ \A i \in 0..MaxPre : Invoked(r, "pre", i) <= 1
                /\ \A i \in 0..MaxPostAll : Invoked(r, "post", i) <= 1
                /\ Cardinality({k \in 1..Len(r.log) :
                                   r.log[k].k = "call"
                                       /\ r.log[k].n = "postPreExecution"}) <= 1
                /\ Count(r.log, Step("body")) <= 1)

\* Witness of C34: the only pre-execution middleware of a finished dispatch
\* called next() twice, and the body was invoked once.
C34_Witness ==
    \E d \in Dispatches :
        /\ disp[d].pc = "done"
        /\ disp[d].chain = <<"twice">>
        /\ Count(disp[d].log, Entry("next", "pre", 0, "")) = 2
        /\ Count(disp[d].log, Step("body")) = 1

\* ------------------------------------------------------------------ C35
\* The dispatch passes its cooldown block in this step.
PassesCooldownBlock(d) ==
    /\ disp[d].pc = "handler" /\ disp'[d].pc = "pluginArgs"
    /\ disp[d].command.hasCooldown /\ disp[d].command.cooldown > 0

\* C35: when a dispatch passes its cooldown block less than the cooldown
\* after the previous cooldown check of the same command and user, and no
\* removal timer has deleted the stamp of that check in between, it finds
\* that stamp and reports the cooldown, also when the two dispatches were in
\* flight together; and the block reads, stamps and schedules in one step.
C35_CooldownBlockAtomic ==
    [][\A d \in Tasks :
          LET r == disp[d]
              c == r.command
              us == UsesOf(c.name, r.user)
          IN  PassesCooldownBlock(d) =>
                  /\ (/\ us # <<>>
                      /\ now - us[Len(us)].at < c.cooldown
                      /\ c.name \in DOMAIN cooldowns
                      /\ r.user \in DOMAIN cooldowns[c.name])
                         => Has(disp'[d].log, Emit("cooldownActive", ""))
                  /\ cooldowns'[c.name][r.user] = now * 1000
                  /\ Cardinality(timers') = Cardinality(timers) + 1]_vars

\* Witness of C35: two dispatches of the command by the same user were in
\* flight together; both have passed the cooldown block in the same second
\* and the second one was reported on cooldown.
C35_Witness ==
    /\ disp[1].pc = "chain" /\ disp[2].pc = "chain"
    /\ disp[1].user = disp[2].user
    /\ disp[1].command.name = "slow" /\ disp[2].command.name = "slow"
    /\ Len(uses) = 2 /\ uses[1].at = uses[2].at
    /\ ~uses[1].active /\ uses[2].active
    /\ \E d \in Tasks : Has(disp[d].log, Emit("cooldownActive", ""))

\* ------------------------------------------------------------------ C36
\* C36: once unloadPlugins has completed, with no loadPlugins call started
\* after it was called, the live plugin registry is empty, also when the
\* init of a plugin was still in flight while unloadPlugins ran.
C36_NothingLeftAfterUnload ==
    unload.pc = "done" => plugins = EmptyMap

\* ------------------------------------------------------------------ C37
\* C37: loadPlugins never invokes the init of a plugin whose name is in the
\* live plugin registry, and no step of a loadPlugins call for a plugin
\* whose name is already there changes the live registry, the command
\* registry or the pre- and post-execution middleware lists.
C37_LoadedNameNotReloaded ==
    /\ [](load.pc = "init" => load.valid[load.current].name \notin DOMAIN plugins)
    /\ [][(load.pc = "init" /\ load.valid[load.current].name \in DOMAIN plugins) =>
              UNCHANGED <<plugins, commands, preExecutionMiddleware,
                          postExecutionMiddleware>>]_vars

\* ------------------------------------------------------------------ C38
\* The events that end a dispatch before its cooldown block.
Refusals ==
    {Emit("commandNotFound", ""), Emit("invalidContext", ""),
     Emit("invalidArgumentsGiven", "argumentError"), Emit("permissionDenied", "")}

Refused(r) == \E e \in Refusals : Has(r.log, e)

\* C38: a dispatch that ended in commandNotFound, invalidContext,
\* invalidArgumentsGiven or permissionDenied is over and never reached the
\* cooldown block, and no step of a dispatch that has not reached its
\* cooldown block writes a timestamp or sets a removal timer.
C38_RefusedLeavesLedger ==
    /\ [](\A d \in Dispatches :
            Refused(disp[d]) =>
                disp[d].pc = "done" /\ ~Has(disp[d].log, Step("cooldown")))
    /\ [][\A d \in Dispatches :
             (disp'[d] # disp[d] /\ ~Has(disp'[d].log, Step("cooldown"))) =>
                 UNCHANGED <<cooldowns, timers, uses>>]_vars

\* Witness of C38: the ledger holds the stamp of a member who ran the
\* command, and the dispatch of the same command by a member without the
\* permission has been denied.
C38_Witness ==
    \E d \in Dispatches :
        /\ disp[d].pc = "done" /\ disp[d].command.name = "ban"
        /\ Has(disp[d].log, Emit("permissionDenied", ""))
        /\ "ban" \in DOMAIN cooldowns
        /\ DOMAIN cooldowns["ban"] = {"u1"}
        /\ Cardinality(timers) = 1

\* ------------------------------------------------------------------ C39
\* The commands and middleware that the plugins initialized so far have
\* contributed.
Contributed(p) ==
    /\ \A i \in 1..Len(p.commands) : p.commands[i].name \in DOMAIN commands
    /\ \A i \in 1..Len(p.preExecutionMiddleware) :
           \E j \in 1..Len(preExecutionMiddleware) :
               preExecutionMiddleware[j] = p.preExecutionMiddleware[i]
    /\ \A i \in 1..Len(p.postExecutionMiddleware) :
           \E j \in 1..Len(postExecutionMiddleware) :
               postExecutionMiddleware[j] = p.postExecutionMiddleware[i]

\* C39: no step of unloadPlugins changes the command registry, the pre- or
\* post-execution middleware list or the cooldown ledger, and whatever a
\* plugin contributed when it was initialized stays registered whether or
\* not the plugin is still in the live registry.
C39_UnloadChangesRegistryOnly ==
    /\ [][unload' # unload =>
              UNCHANGED <<commands, commandOrder, preExecutionMiddleware,
                          postExecutionMiddleware, cooldowns, timers>>]_vars
    /\ [](\A b \in RetireBatches : \A i \in 1..Len(b) :
             <<b[i].name, b[i].version>> \in initialized => Contributed(b[i]))

\* Witness of C39: the plugin that contributed the command and a middleware
\* is no longer in the live registry, which unloadPlugins has emptied, and a
\* dispatch has found the command, gone through the middleware, stamped the
\* ledger and run the body.
C39_Witness ==
    \E d \in Dispatches :
        /\ plugins = EmptyMap /\ unload.pc = "idle" /\ load.pc = "idle"
        /\ <<"S", 1>> \in initialized
        /\ disp[d].pc = "done" /\ disp[d].name = "slow"
        /\ uses # <<>> /\ "slow" \in DOMAIN cooldowns
        /\ PreMiddlewareRan(disp[d]) /\ BodyInvoked(disp[d])

\* ------------------------------------------------------------------ C40
\* The names of the dependency graph of a batch: its keys and every
\* dependency name they mention.
GraphNames(batch) ==
    BatchNames(batch) \cup UNION {DependsOn(batch, n) : n \in BatchNames(batch)}

\* Every name of the graph is in the list exactly once, and nothing else is.
EachOnce(batch, sorted) ==
    /\ \A n \in GraphNames(batch) : Count(sorted, n) = 1
    /\ \A i \in 1..Len(sorted) : sorted[i] \in GraphNames(batch)

\* Every name of the list comes after all the names it depends on.
DependenciesFirst(batch, sorted) ==
    \A i \in 1..Len(sorted) : \A dep \in DependsOn(batch, sorted[i]) :
        \E j \in 1..(i - 1) : sorted[j] = dep

\* The call of topologicalSort threw: the batch ended on the cycle error.
SortThrew ==
    /\ load.pc = "done" /\ load.sorted = <<>>
    /\ Len(load.log) = 1 /\ load.log[1].k = "cycle"

\* C40: for a batch whose dependency graph has no cycle, topologicalSort
\* returns a list that holds each name of the graph exactly once and each
\* plugin after everything it depends on; for a graph with a cycle, a
\* self-dependency included, it throws.
C40_SortOrdersOrThrows ==
    load.pc # "idle" =>
        IF HasCycle(load.batch)
        THEN SortThrew
        ELSE /\ \A i \in 1..Len(load.log) : load.log[i].k # "cycle"
             /\ EachOnce(load.batch, load.sorted)
             /\ DependenciesFirst(load.batch, load.sorted)

\* Witness of C40: the sort of [F, B, G], where F depends on B and G and
\* both of these on A, which is not in the batch, has returned A once and
\* first, and F last.
C40_Witness ==
    /\ load.batch = <<PluginF, PluginB, PluginG>>
    /\ load.sorted = <<"A", "B", "G", "F">>

====
